---- MODULE Spec2Model ----
(***************************************************************************)
(* A model of the finite-difference fitting helpers of                     *)
(* pymatgen/analysis/elasticity/elastic.py: get_symbol_list,               *)
(* find_eq_stress, get_strain_state_dict and get_diff_coeff.               *)
(*                                                                         *)
(* Numbers.  Strains and stresses are integers counted in units of         *)
(* 0.5e-10, so that the literal 1e-10 of the source is 2 and the literal   *)
(* 1e-8 is 200.  A symmetric 3x3 sample is written by its six independent  *)
(* entries in Voigt order (xx, yy, zz, yz, xz, xy).  Quotients are kept as *)
(* reduced fractions <<numerator, denominator>>; floating-point rounding   *)
(* is not modelled except where stated (Solve).                            *)
(***************************************************************************)
EXTENDS Integers, Sequences, FiniteSets, TLC

VARIABLES
    \* get_symbol_list
    rank,      \* the rank argument of the running call (0: no call yet)
    symN,      \* n of "for n, idx in enumerate(indices)": tuples done so far
    c_vec,     \* the symbol vector, filled up to symN
    c_arr,     \* the dense array in row-major order, NoSym where unset
    indices,   \* the list of index tuples the loop runs over
    symPc,     \* "idle" | "loop" | "done"
    \* find_eq_stress / get_strain_state_dict
    strains,   \* the caller's strain samples
    stresses,  \* the caller's stress samples, paired by position
    call,      \* the arguments of the last call (fn = "none": no call yet)
    ret,       \* what that call returned or raised
    \* get_diff_coeff
    hvec,      \* the sampling stencil
    dcall,     \* the derivative order n of the last call (-1: no call yet)
    coef       \* what that call returned or raised

symVars == <<rank, symN, c_vec, c_arr, indices, symPc>>
clsVars == <<strains, stresses, call, ret>>
difVars == <<hvec, dcall, coef>>
vars == <<rank, symN, c_vec, c_arr, indices, symPc, strains, stresses, call, ret, hvec, dcall, coef>>

----------------------------------------------------------------------------
(* Bounds of the model *)

MaxRank == 4

(* Program constants *)

\* def get_symbol_list(rank, dim=6)
dim == 6

----------------------------------------------------------------------------
(* Small arithmetic *)

RECURSIVE Fact(_)
Fact(k) == IF k <= 0 THEN 1 ELSE k * Fact(k - 1)

RECURSIVE Pow(_, _)
\* x ** k as numpy computes it: x ** 0 = 1, also for x = 0
Pow(x, k) == IF k = 0 THEN 1 ELSE x * Pow(x, k - 1)

Abs(x) == IF x < 0 THEN -x ELSE x

RECURSIVE Binom(_, _)
\* Pascal's rule: the number of k-subsets of an n-set
Binom(nn, k) ==
    IF k = 0 THEN 1
    ELSE IF nn = 0 THEN 0
    ELSE Binom(nn - 1, k - 1) + Binom(nn - 1, k)

----------------------------------------------------------------------------
(* get_symbol_list *)

\* np.zeros(..., dtype=object): the integer 0 a slot holds before a symbol is
\* written into it, here the empty name
NoSym == <<>>

\* str(i): the decimal digits of an index
Digits(i) == IF i < 10 THEN <<i>> ELSE <<i \div 10, i % 10>>

RECURSIVE JoinDigits(_)
\* "".join(map(str, idx))
JoinDigits(idx) ==
    IF Len(idx) = 0 THEN <<>> ELSE Digits(Head(idx)) \o JoinDigits(Tail(idx))

\* sp.Symbol("c_" + "".join(map(str, idx))): sympy symbols are equal iff their
\* names are, so a symbol is its name (the prefix "c_" is common to all)
Symbol(idx) == JoinDigits(idx)

\* the index tuples of a rank-r, dim-wide array
Slots(r) == [1..r -> 0..(dim - 1)]

RECURSIVE RavelTo(_, _)
RavelTo(t, i) == IF i = 0 THEN 0 ELSE RavelTo(t, i - 1) * dim + t[i]

\* the row-major position (from 1) of index tuple t in a dim-wide array
Ravel(t) == RavelTo(t, Len(t)) + 1

\* the index tuple at row-major position k of a rank-r array
Unravel(k, r) == [i \in 1..r |-> ((k - 1) \div Pow(dim, r - i)) % dim]

RECURSIVE CombosFrom(_, _)
\* the non-decreasing r-tuples over lo..dim-1 in lexicographic order, built
\* head first as itertools does
CombosFrom(r, lo) ==
    IF r = 0 THEN << <<>> >>
    ELSE IF lo > dim - 1 THEN <<>>
    ELSE LET tails == CombosFrom(r - 1, lo)
         IN  [i \in 1..Len(tails) |-> <<lo>> \o tails[i]] \o CombosFrom(r, lo + 1)

\* list(itertools.combinations_with_replacement(range(dim), r=rank))
CombinationsWithReplacement(r) == CombosFrom(r, 0)

PermsIdentityOnly(idx) == {idx}

\* itertools.permutations(idx): every reordering of the tuple
PermsOf(idx) ==
    LET r == Len(idx)
    IN  {[i \in 1..r |-> idx[p[i]]] : p \in Permutations(1..r)}

RECURSIVE WriteSlots(_, _, _)
\* lines 1041-1042: "for perm in itertools.permutations(idx): c_arr[perm] = sym"
WriteSlots(arr, perms, sym) ==
    IF perms = {} THEN arr
    ELSE LET q == CHOOSE q \in perms : TRUE
         IN  WriteSlots([arr EXCEPT ![Ravel(q)] = sym], perms \ {q}, sym)

SymInit ==
    /\ rank = 0
    /\ symN = 0
    /\ c_vec = <<>>
    /\ c_arr = <<>>
    /\ indices = <<>>
    /\ symPc = "idle"

\* lines 1036-1038: the call, up to the loop
GetSymbolListEnter(r) ==
    /\ symPc \in {"idle", "done"}
    /\ rank' = r
    /\ symN' = 0
    /\ c_vec' = <<>>
    /\ c_arr' = [k \in 1..Pow(dim, r) |-> NoSym]
    /\ indices' = CombinationsWithReplacement(r)
    /\ symPc' = "loop"

\* lines 1039-1042: one iteration of "for n, idx in enumerate(indices)"
GetSymbolListStep ==
    /\ symPc = "loop"
    /\ IF symN < Len(indices)
           THEN LET idx == indices[symN + 1]
                    sym == Symbol(idx)
                IN  /\ c_vec' = Append(c_vec, sym)
                    /\ c_arr' = WriteSlots(c_arr, PermsOf(idx), sym)
                    /\ symN' = symN + 1
                    /\ symPc' = "loop"
           ELSE \* line 1043: return c_vec, c_arr
                /\ symPc' = "done"
                /\ UNCHANGED <<c_vec, c_arr, symN>>
    /\ UNCHANGED <<rank, indices>>

SymNext ==
    \/ \E r \in 1..MaxRank : GetSymbolListEnter(r) /\ UNCHANGED <<clsVars, difVars>>
    \/ GetSymbolListStep /\ UNCHANGED <<clsVars, difVars>>

----------------------------------------------------------------------------
(* Samples: symmetric 3x3 matrices, paired strain and stress *)

None == <<>>

Zero6 == <<0, 0, 0, 0, 0, 0>>

\* the symmetric 3x3 matrix with the six entries v, given in Voigt order
Sym3(v) == << <<v[1], v[6], v[5]>>, <<v[6], v[2], v[4]>>, <<v[5], v[4], v[3]>> >>

\* Tensor.voigt: the 6-component form of a symmetric 3x3 matrix (entries
\* xx, yy, zz, yz, xz, xy)
Voigt(m) == <<m[1][1], m[2][2], m[3][3], m[2][3], m[1][3], m[1][2]>>

\* Strain.voigt: the Voigt form of a strain counts each shear entry twice
\* (vscale = 1, 1, 1, 2, 2, 2)
StrainVoigt(m) ==
    <<m[1][1], m[2][2], m[3][3], 2 * m[2][3], 2 * m[1][3], 2 * m[1][2]>>

\* Tensor.zeroed(tol): entries with magnitude < tol become 0
Zeroed(m, tol) ==
    [i \in 1..3 |-> [j \in 1..3 |-> IF Abs(m[i][j]) < tol THEN 0 ELSE m[i][j]]]

\* the (strain, stress) samples a caller may pass, in units of 0.5e-10.
\* Strains: none; axial at two magnitudes; biaxial in two ratios; axial with
\* a second component of exactly 1e-10; axial of magnitude 0.5e-10.  Stresses: zero and two values 1e-8
\* away from it on either side, one with a component below 1e-10.
SamplePalette ==
    LET Z == Sym3(Zero6)
        A1 == Sym3(<<20, 0, 0, 0, 0, 0>>)
        A2 == Sym3(<<-40, 0, 0, 0, 0, 0>>)
        B1 == Sym3(<<20, 40, 0, 0, 0, 0>>)
        B2 == Sym3(<<20, 60, 0, 0, 0, 0>>)
        T == Sym3(<<20, 2, 0, 0, 0, 0>>)
        E == Sym3(<<1, 0, 0, 0, 0, 0>>)
        S0 == Sym3(Zero6)
        Sp == Sym3(<<200, 0, 0, 0, 0, 0>>)
        Sm == Sym3(<<-200, 1, 0, 0, 0, 0>>)
    IN  { <<Z, S0>>, <<Z, Sp>>, <<Z, Sm>>,
          <<A1, Sp>>, <<A1, Sm>>, <<A2, Sm>>,
          <<B1, Sp>>, <<B2, S0>>, <<T, Sm>>, <<E, Sp>> }

\* the eq_stress arguments: None, or an explicit stress
EqStressArgs == {None, Sym3(<<7, 1, 0, 0, 0, 0>>)}

\* the tol arguments: below, at and above the default 1e-10
Tols == {1, 2, 3}

----------------------------------------------------------------------------
(* find_eq_stress *)

\* def find_eq_stress(strains, stresses, tol: float = 1e-10)
DefaultTol == 2

\* np.allclose(eq_stress, eq_stress[0], atol=1e-8, rtol=0)
EqATol == 200

\* np.all(abs(strain_array) < tol, axis=(1, 2)): the rows whose nine entries
\* are all below tol, in input order
ZeroStrainRows(strs, tol) ==
    LET hit(k) == \A i \in 1..3 : \A j \in 1..3 : Abs(strs[k][i][j]) < tol
        S == {k \in 1..Len(strs) : hit(k)}
    IN  [n \in 1..Cardinality(S) |->
            CHOOSE k \in S : Cardinality({l \in S : l < k}) = n - 1]

\* np.allclose(a, b, atol=1e-8, rtol=0) on two 3x3 arrays: |a - b| <= atol
\* in every entry
AllClose(a, b) == \A i \in 1..3 : \A j \in 1..3 : Abs(a[i][j] - b[i][j]) <= EqATol

AllSamePairwise(eq) == \A k, l \in 1..Len(eq) : AllClose(eq[k], eq[l])

\* line 915: every selected stress is compared with the first one
AllSame(eq) == \A k \in 1..Len(eq) : AllClose(eq[k], eq[1])

\* find_eq_stress.  The value found in the list is a slice of
\* np.array(stresses), a plain array (isStress = FALSE); the default is a
\* Stress object.
FindEqStress(strs, stss, tol) ==
    IF Len(strs) = 0
    THEN \* np.all(..., axis=(1, 2)) of an array of shape (0,)
         [kind |-> "raise", err |-> "AxisError", warned |-> FALSE]
    ELSE LET rows == ZeroStrainRows(strs, tol)
             eq_stress == [n \in 1..Len(rows) |-> stss[rows[n]]]
         IN  IF Len(eq_stress) # 0
             THEN IF Len(eq_stress) > 1 /\ ~AllSame(eq_stress)
                  THEN [kind |-> "raise", err |-> "ValueError: multiple eq stresses",
                        warned |-> FALSE]
                  ELSE [kind |-> "ok", value |-> eq_stress[1], isStress |-> FALSE,
                        warned |-> FALSE]
             ELSE [kind |-> "ok", value |-> Sym3(Zero6), isStress |-> TRUE,
                   warned |-> TRUE]

----------------------------------------------------------------------------
(* get_strain_state_dict *)

\* mode = (template == (np.abs(vstrains) > 1e-10)).all(axis=1)
ModeTol == 2

RECURSIVE Gcd(_, _)
Gcd(a, b) == IF b = 0 THEN a ELSE Gcd(b, a % b)

\* a / b for b # 0, as a reduced fraction with a positive denominator
Frac(a, b) ==
    LET g == Gcd(Abs(a), Abs(b))
        sg == IF b < 0 THEN -1 ELSE 1
    IN  <<(sg * a) \div g, Abs(b) \div g>>

\* the elements of a set of integers in ascending order
Ascending(S) ==
    [n \in 1..Cardinality(S) |-> CHOOSE x \in S : Cardinality({y \in S : y < x}) = n - 1]

Range(f) == {f[i] : i \in DOMAIN f}

\* tuple(np.nonzero(vstrain)[0].tolist()): the 0-based positions of the
\* nonzero entries, ascending
Nonzero(v) == Ascending({i - 1 : i \in {j \in 1..6 : v[j] # 0}})

\* "for ind in independent" runs over a Python set of tuples, whose order is
\* that of the hash table; here the order of the binary masks of the sets
IterOrder(independent) ==
    LET mask(ind) == LET bit[n \in 0..Len(ind)] ==
                             IF n = 0 THEN 0 ELSE bit[n - 1] + Pow(2, ind[n])
                     IN  bit[Len(ind)]
        masks == {mask(ind) : ind \in independent}
        asc == Ascending(masks)
    IN  [n \in 1..Len(asc) |-> CHOOSE ind \in independent : mask(ind) = asc[n]]

\* lines 960-963: the rows whose pattern of entries above 1e-10 is exactly ind
Mode(ind, vstrains) ==
    Ascending({k \in 1..Len(vstrains) :
        \A i \in 0..5 : (i \in Range(ind)) = (Abs(vstrains[k][i + 1]) > ModeTol)})

\* np.argmin(np.abs(taken)): the first position (0-based) of the least magnitude
ArgminAbs(taken) ==
    CHOOSE k \in 0..(Len(taken) - 1) :
        /\ \A l \in 0..(Len(taken) - 1) : Abs(taken[k + 1]) <= Abs(taken[l + 1])
        /\ \A l \in 0..(k - 1) : Abs(taken[l + 1]) > Abs(taken[k + 1])

\* lines 967-970: the key of a group, computed from one of its rows
StrainState(row, ind) ==
    LET taken == [k \in 1..Len(ind) |-> row[ind[k] + 1]]
        min_nonzero_ind == ArgminAbs(taken)
        min_nonzero_val == taken[min_nonzero_ind + 1]
    IN  [i \in 1..6 |-> Frac(row[i], min_nonzero_val)]

\* col.argsort(): the row positions in ascending order of col.  numpy's
\* default sort is not stable, so rows of equal value come out in an order
\* the build decides: ties = "stable" keeps them in input order, "reversed"
\* swaps them.
Argsort(col, ties) ==
    LET before(k, l) ==
            \/ col[k] < col[l]
            \/ col[k] = col[l] /\ (IF ties = "stable" THEN k < l ELSE k > l)
    IN  [n \in 1..Len(col) |->
            CHOOSE k \in 1..Len(col) :
                Cardinality({l \in 1..Len(col) : before(l, k)}) = n - 1]

Take(rows, perm) == [n \in 1..Len(perm) |-> rows[perm[n]]]

Column(rows, c) == [n \in 1..Len(rows) |-> rows[n][c + 1]]

SortStrainsFirst(mstrains, mstresses, c, ties) ==
    LET new_strains == Take(mstrains, Argsort(Column(mstrains, c), ties))
        new_stresses == Take(mstresses, Argsort(Column(new_strains, c), ties))
    IN  [strains |-> new_strains, stresses |-> new_stresses]

\* lines 978-979: the stresses are reordered by the argsort of the strain
\* column, then the strains by the argsort of the same, still unsorted, column
SortGroup(mstrains, mstresses, c, ties) ==
    LET new_stresses == Take(mstresses, Argsort(Column(mstrains, c), ties))
        new_strains == Take(mstrains, Argsort(Column(mstrains, c), ties))
    IN  [strains |-> new_strains, stresses |-> new_stresses]

AppendEqTwice(mstrains, mstresses, veq_stress) ==
    [strains |-> Append(Append(mstrains, Zero6), Zero6),
     stresses |-> Append(Append(mstresses, veq_stress), veq_stress)]

\* lines 974-975: np.vstack appends the zero strain and the eq stress
AppendEq(mstrains, mstresses, veq_stress) ==
    [strains |-> Append(mstrains, Zero6), stresses |-> Append(mstresses, veq_stress)]

\* lines 959-980: the body of "for ind in independent"
ProcessInd(ind, vstrains, vstresses, add_eq, veq_stress, sort, ties) ==
    LET mode == Mode(ind, vstrains)
        mstresses == Take(vstresses, mode)
        mstrains == Take(vstrains, mode)
    IN  IF Len(mstrains) = 0
        THEN \* mstrains[-1] of an empty array
             [kind |-> "raise", err |-> "IndexError"]
        ELSE IF Len(ind) = 0
        THEN \* np.argmin of an empty array
             [kind |-> "raise", err |-> "ValueError: argmin of an empty sequence"]
        ELSE LET strain_state == StrainState(mstrains[Len(mstrains)], ind)
                 g1 == IF add_eq THEN AppendEq(mstrains, mstresses, veq_stress)
                       ELSE [strains |-> mstrains, stresses |-> mstresses]
                 g2 == IF sort THEN SortGroup(g1.strains, g1.stresses, ind[1], ties)
                       ELSE g1
             IN  [kind |-> "ok", key |-> strain_state, ind |-> ind,
                  strains |-> g2.strains, stresses |-> g2.stresses]

\* line 956: veq_stress.  The stress found by find_eq_stress is a plain
\* array, which has no attribute voigt.
VeqStress(strs, stss, eq_stress) ==
    IF eq_stress # None
    THEN [kind |-> "ok", value |-> Voigt(eq_stress), warned |-> FALSE]
    ELSE LET f == FindEqStress(strs, stss, DefaultTol)
         IN  IF f.kind = "raise" THEN f
             ELSE IF f.isStress
             THEN [kind |-> "ok", value |-> Voigt(f.value), warned |-> f.warned]
             ELSE [kind |-> "raise", err |-> "AttributeError", warned |-> f.warned]

\* get_strain_state_dict: the groups in iteration order, or the first error.
\* strain_state_dict[strain_state] = ... never replaces an entry: the key of a
\* group has magnitude >= 1 exactly at the positions of its ind, so the keys
\* of two index sets differ.
GetStrainStateDict(strs, stss, eq_stress, tol, add_eq, sort, ties) ==
    LET vstrains == [k \in 1..Len(strs) |-> StrainVoigt(Zeroed(strs[k], tol))]
        vstresses == [k \in 1..Len(stss) |-> Voigt(Zeroed(stss[k], tol))]
        independent == {Nonzero(vstrains[k]) : k \in 1..Len(vstrains)}
        veq == IF add_eq THEN VeqStress(strs, stss, eq_stress)
               ELSE [kind |-> "ok", value |-> None, warned |-> FALSE]
    IN  IF veq.kind = "raise" THEN veq
        ELSE LET order == IterOrder(independent)
                 groups == [n \in 1..Len(order) |->
                               ProcessInd(order[n], vstrains, vstresses, add_eq,
                                          veq.value, sort, ties)]
                 bad == {n \in 1..Len(order) : groups[n].kind = "raise"}
             IN  IF bad # {}
                 THEN [kind |-> "raise",
                       err |-> groups[CHOOSE n \in bad : \A l \in bad : n <= l].err,
                       warned |-> veq.warned]
                 ELSE [kind |-> "ok", groups |-> groups, warned |-> veq.warned]

----------------------------------------------------------------------------
(* get_diff_coeff *)

\* the stencil points a caller may pass, in units of the strain step
Points == {-2, -1, 0, 1, 3}

\* the determinant of a square matrix given as a sequence of rows
RECURSIVE Det(_)
Det(M) ==
    LET m == Len(M)
        Minor(j) == [i \in 1..(m - 1) |->
                        [k \in 1..(m - 1) |-> M[i + 1][IF k < j THEN k ELSE k + 1]]]
        sum[j \in 0..m] ==
            IF j = 0 THEN 0
            ELSE sum[j - 1] + (IF j % 2 = 1 THEN 1 ELSE -1) * M[1][j] * Det(Minor(j))
    IN  IF m = 0 THEN 1 ELSE IF m = 1 THEN M[1][1] ELSE sum[m]

VandermondeTransposed(h) ==
    [k \in 1..Len(h) |-> [j \in 1..Len(h) |-> Pow(h[k], j - 1)]]

\* lines 1077-1078: a[k][j] = hvec[j] ** k, rows k = 0..acc-1
Vandermonde(h) ==
    [k \in 1..Len(h) |-> [j \in 1..Len(h) |-> Pow(h[j], k - 1)]]

\* lines 1079-1080: b = zeros(acc); b[n] = factorial(n)
Rhs(acc, n) == [k \in 1..acc |-> IF k - 1 = n THEN Fact(n) ELSE 0]

\* the coefficients np.linalg.solve returns after dividing by a pivot that
\* is rounding error: of no definite value
Unspecified(acc) == [j \in 1..acc |-> <<1, 0>>]

\* np.linalg.solve(a, b).  A system with a solution gives it, here exactly,
\* as reduced fractions (Cramer's rule).  For a singular matrix the LU
\* factorisation raises LinAlgError only if a pivot is exactly zero
\* (pivot = "zero"); in floating point the pivot of a singular matrix may
\* come out as a rounding residue (pivot = "residue"), and then a vector is
\* returned.
Solve(a, b, pivot) ==
    LET acc == Len(a)
        det == Det(a)
        Replaced(j) == [k \in 1..acc |-> [l \in 1..acc |-> IF l = j THEN b[k] ELSE a[k][l]]]
    IN  IF det = 0
        THEN IF pivot = "zero"
             THEN [kind |-> "raise", err |-> "LinAlgError: Singular matrix"]
             ELSE [kind |-> "ok", value |-> Unspecified(acc)]
        ELSE [kind |-> "ok", value |-> [j \in 1..acc |-> Frac(Det(Replaced(j)), det)]]

\* get_diff_coeff(hvec, n), n >= 0
GetDiffCoeff(h, n, pivot) ==
    LET acc == Len(h)
    IN  IF acc = 0
        THEN \* np.column_stack of an empty list
             [kind |-> "raise", err |-> "ValueError: need at least one array"]
        ELSE IF n >= acc
        THEN \* b[n] with n out of bounds
             [kind |-> "raise", err |-> "IndexError"]
        ELSE Solve(Vandermonde(h), Rhs(acc, n), pivot)

\* diff_fit, lines 889-891: the coefficients of one strain state's stencil
\* for _ord in range(1, order); the first error ends the fit
DiffFitCoeffs(h, order, pivot) ==
    LET coefs == [o \in 1..(order - 1) |-> GetDiffCoeff(h, o, pivot)]
        bad == {o \in 1..(order - 1) : coefs[o].kind = "raise"}
    IN  IF bad # {}
        THEN coefs[CHOOSE o \in bad : \A l \in bad : o <= l]
        ELSE [kind |-> "ok", value |-> [o \in 1..(order - 1) |-> coefs[o].value]]

----------------------------------------------------------------------------
(* Exact arithmetic on the reduced fractions <<numerator, denominator>> *)

FZero == <<0, 1>>

FInt(k) == <<k, 1>>

FAdd(x, y) == Frac(x[1] * y[2] + y[1] * x[2], x[2] * y[2])

FMul(x, y) == Frac(x[1] * y[1], x[2] * y[2])

\* x / y for y # 0
FDiv(x, y) == Frac(x[1] * y[2], x[2] * y[1])

\* the sum of the fractions s[lo], .., s[hi]
RECURSIVE FSumRange(_, _, _)
FSumRange(s, lo, hi) ==
    IF lo > hi THEN FZero
    ELSE IF lo = hi THEN s[lo]
    ELSE LET mid == (lo + hi) \div 2
         IN  FAdd(FSumRange(s, lo, mid), FSumRange(s, mid + 1, hi))

\* the sum of a sequence of fractions
FSum(s) == FSumRange(s, 1, Len(s))

\* an array held as its values (np.zeros / np.array and the writes into it)
Dense(s) == s \o <<>>

\* the element of a set of one element: The({e(v) : v \in {x}}) is e(x), with
\* x computed once
The(S) == CHOOSE e \in S : TRUE

----------------------------------------------------------------------------
(* generate_pseudo *)

\* get_symbol_list(rank) as one call: (c_vec, c_arr), c_arr in row-major
\* order.  Lines 1039-1042 run to completion: c_vec takes one symbol per
\* index tuple, in order, and a slot of c_arr holds the symbol of the last
\* tuple one of whose permutations is the slot (the zero it started with if
\* there is none)
GetSymbolList(r) ==
    LET writers(k, idxs, perms) ==
            {n \in 1..Len(idxs) : Unravel(k, r) \o <<>> \in perms[n]}
        last(W) == CHOOSE n \in W : \A m \in W : m <= n
    IN  The({The({[c_vec |-> Dense([n \in 1..Len(idxs) |-> Symbol(idxs[n])]),
                   c_arr |-> Dense([k \in 1..Pow(dim, r) |->
                                       The({(IF W = {} THEN NoSym
                                             ELSE Symbol(idxs[last(W)])) :
                                            W \in {writers(k, idxs, perms)}})])] :
                  perms \in {Dense([n \in 1..Len(idxs) |-> PermsOf(idxs[n])])}}) :
             idxs \in {CombinationsWithReplacement(r)}})

\* lines 1007-1011, one entry of s_arr[n] as the map from symbol to
\* coefficient.  exps = c_arr contracted degree-1 times, on its last axes,
\* with strain_v = ray * s, over (degree-1)!; its (degree-1)-th derivative in
\* s is sum over (j2..jd) of c_arr[r, j2..jd] * ray[j2] * .. * ray[jd].
RowExpression(syms, ray, degree, r) ==
    LET width == Pow(dim, degree - 1)
        slot(m) == <<r>> \o Unravel(m, degree - 1)
        prod(t) == LET p[i \in 1..degree] ==
                           IF i = 1 THEN FInt(1) ELSE FMul(p[i - 1], ray[t[i] + 1])
                   IN  p[degree]
    IN  The({Dense([k \in 1..Len(syms.c_vec) |->
                       FSum([m \in 1..width |->
                                IF held[m] = syms.c_vec[k] THEN term[m] ELSE FZero])]) :
             term \in {Dense([m \in 1..width |-> prod(slot(m))])},
             held \in {Dense([m \in 1..width |-> syms.c_arr[Ravel(slot(m))]])}})

\* lines 1004-1012: s_vec, the expressions of all rays, ray major and Voigt
\* component minor (s_arr.ravel())
SVec(syms, strain_states, degree) ==
    Dense([q \in 1..(6 * Len(strain_states)) |->
              RowExpression(syms, strain_states[((q - 1) \div 6) + 1], degree, (q - 1) % 6)])

AbsentFromFirstRow(syms, s_vec) ==
    {syms.c_vec[k] : k \in {l \in 1..Len(syms.c_vec) : s_vec[1][l] = FZero}}

\* lines 1013-1014: the symbols of c_vec that occur in no expression
AbsentSymbols(syms, s_vec) ==
    {syms.c_vec[k] : k \in {l \in 1..Len(syms.c_vec) :
                               \A q \in 1..Len(s_vec) : s_vec[q][l] = FZero}}

\* lines 1015-1017: pseudo_mat[:, n] = v_diff(s_vec, c_vec[n])
PseudoMat(syms, s_vec) ==
    Dense([q \in 1..Len(s_vec) |-> Dense([k \in 1..Len(syms.c_vec) |-> s_vec[q][k]])])

\* the columns of a matrix are pairwise orthogonal
ColumnsOrthogonal(mat, ncols) ==
    \A k, l \in 1..ncols :
        k < l => FSum([q \in 1..Len(mat) |-> FMul(mat[q][k], mat[q][l])]) = FZero

\* np.linalg.pinv(pseudo_mat) for a matrix with pairwise orthogonal columns:
\* row k is column k over its squared norm, and zero for a zero column
Pinv(mat, ncols) ==
    The({Dense([k \in 1..ncols |->
                   Dense([q \in 1..Len(mat) |->
                             IF norm2[k] = FZero THEN FZero ELSE FDiv(mat[q][k], norm2[k])])]) :
         norm2 \in {Dense([k \in 1..ncols |->
                              FSum([q \in 1..Len(mat) |-> FMul(mat[q][k], mat[q][k])])])}})

\* generate_pseudo(strain_states, order): per degree 2..order the
\* pseudo-inverse and the absent symbols
GeneratePseudo(strain_states, order) ==
    Dense([dg \in 1..(order - 1) |->
              The({The({The({[pinv |-> Pinv(mat, Len(syms.c_vec)),
                              absent |-> AbsentSymbols(syms, s_vec)] :
                             mat \in {PseudoMat(syms, s_vec)}}) :
                        s_vec \in {SVec(syms, strain_states, dg + 1)}}) :
                   syms \in {GetSymbolList(dg + 1)}})])

----------------------------------------------------------------------------
(* Tensor.from_voigt, Tensor.voigt for tensors of rank 2d *)

\* the Voigt index of the pair (i, j) of 0-based tensor indices
VoigtPair(i, j) ==
    IF i = j THEN i
    ELSE IF {i, j} = {1, 2} THEN 3
    ELSE IF {i, j} = {0, 2} THEN 4
    ELSE 5

\* the index tuple at row-major position k of a rank-r array of width 3
Unravel3(k, r) == [i \in 1..r |-> ((k - 1) \div Pow(3, r - i)) % 3]

\* Tensor.from_voigt(c) for a Voigt array c of d axes (row-major, width 6):
\* the tensor of rank 2d with t[i1 j1 .. id jd] = c[V(i1, j1) .. V(id, jd)]
FromVoigt(c, d) ==
    [rank |-> 2 * d,
     array |-> Dense([k \in 1..Pow(3, 2 * d) |->
                         LET ind == Unravel3(k, 2 * d)
                         IN  c[Ravel([m \in 1..d |-> VoigtPair(ind[2 * m - 1], ind[2 * m])])]])]

\* the tensor entry read back for Voigt index a: the last index pair written
VoigtSource(a) ==
    IF a < 3 THEN <<a, a>> ELSE IF a = 3 THEN <<2, 1>> ELSE IF a = 4 THEN <<2, 0>> ELSE <<1, 0>>

\* the position of index tuple ind in a row-major array of width 3
Ravel3(ind) ==
    LET acc[i \in 0..Len(ind)] == IF i = 0 THEN 0 ELSE acc[i - 1] * 3 + ind[i]
    IN  acc[Len(ind)] + 1

\* Tensor.voigt of a tensor of rank 2d, row-major of width 6
TensorVoigt(t) ==
    LET d == t.rank \div 2
    IN  Dense([k \in 1..Pow(dim, d) |->
                  LET v == Unravel(k, d)
                  IN  t.array[Ravel3([i \in 1..(2 * d) |->
                                         VoigtSource(v[(i + 1) \div 2])[2 - (i % 2)]])]])

----------------------------------------------------------------------------
(* NthOrderElasticTensor, ElasticTensorExpansion *)

\* check_rank = None: no rank is checked
NoCheck == 0

\* the default tol = 1e-4 of the symmetry test
SymmetryTol == <<1, 10000>>

\* x > y for fractions with positive denominators
FGreater(x, y) == x[1] * y[2] > y[1] * x[2]

\* index tuple ind with the two indices of every pair in S exchanged
SwapPairs(ind, S) ==
    [i \in 1..Len(ind) |->
        IF ((i + 1) \div 2) \in S
        THEN ind[IF i % 2 = 1 THEN i + 1 ELSE i - 1]
        ELSE ind[i]]

\* Tensor.is_voigt_symmetric(tol): no entry exceeds by more than tol the
\* entry with the two indices of some of its index pairs exchanged
IsVoigtSymmetric(t, tol) ==
    \A S \in SUBSET (1..(t.rank \div 2)) :
        \A k \in 1..Len(t.array) :
            LET other == t.array[Ravel3(SwapPairs(Unravel3(k, t.rank), S))]
            IN  ~FGreater(FAdd(t.array[k], FMul(FInt(-1), other)), tol)

NewWithoutRankTest(input, check_rank, tol) ==
    IF check_rank # NoCheck /\ check_rank # input.rank
    THEN [kind |-> "raise", err |-> "ValueError: input must be rank check_rank"]
    ELSE [kind |-> "ok", value |-> input, warned |-> ~IsVoigtSymmetric(input, tol)]

\* NthOrderElasticTensor.__new__(input_array, check_rank, tol) for an input
\* array of three entries along every axis
NthOrderElasticTensor(input, check_rank, tol) ==
    IF check_rank # NoCheck /\ check_rank # input.rank
    THEN [kind |-> "raise", err |-> "ValueError: input must be rank check_rank"]
    ELSE IF input.rank % 2 # 0
    THEN [kind |-> "raise", err |-> "ValueError: ElasticTensor must have even rank"]
    ELSE [kind |-> "ok", value |-> input, warned |-> ~IsVoigtSymmetric(input, tol)]

\* NthOrderElasticTensor.order
TensorOrder(t) == t.rank \div 2

ExpansionUnchecked(c_list) ==
    [kind |-> "ok", value |-> c_list,
     warned |-> \E i \in 1..Len(c_list) : ~IsVoigtSymmetric(c_list[i], SymmetryTol)]

\* ElasticTensorExpansion.__init__(c_list): element idx (from 0) is built
\* with check_rank = 4 + 2 * idx, and the first failure is raised
ElasticTensorExpansion(c_list) ==
    LET bad(built) == {i \in 1..Len(c_list) : built[i].kind = "raise"}
    IN  The({IF bad(built) # {}
             THEN [kind |-> "raise",
                   err |-> built[CHOOSE i \in bad(built) : \A j \in bad(built) : i <= j].err]
             ELSE [kind |-> "ok", value |-> Dense([i \in 1..Len(c_list) |-> built[i].value]),
                   warned |-> \E i \in 1..Len(c_list) : built[i].warned] :
             built \in {Dense([i \in 1..Len(c_list) |->
                                  NthOrderElasticTensor(c_list[i], 4 + (i - 1) * 2,
                                                        SymmetryTol)])}})

\* ElasticTensorExpansion.order: self[-1].order
ExpansionOrder(tensors) ==
    IF tensors = <<>> THEN [kind |-> "raise", err |-> "IndexError"]
    ELSE [kind |-> "ok", value |-> TensorOrder(tensors[Len(tensors)])]

----------------------------------------------------------------------------
(* diff_fit *)

\* strain_state.index(1): the first position (0-based) of the key equal to 1
IndexOfOne(key) ==
    CHOOSE i \in 0..5 : key[i + 1] = FInt(1) /\ \A j \in 0..(i - 1) : key[j + 1] # FInt(1)

\* np.dot(coef, data["stresses"]): per Voigt component the weighted sum
DotStresses(weights, rows) ==
    Dense([c \in 1..6 |-> FSum([j \in 1..Len(rows) |-> FMul(weights[j], FInt(rows[j][c]))])])

\* lines 886-891: dei_dsi[_ord - 1, :, idx], or the first error of the loops
DeiDsi(groups, order, pivot) ==
    LET hvecOf(n) == Column(groups[n].strains, IndexOfOne(groups[n].key))
        bad(coefs) == {p \in (1..Len(groups)) \X (1..(order - 1)) :
                          coefs[p[1]][p[2]].kind = "raise"}
        first(B) == CHOOSE p \in B :
                        \A q \in B : p[1] < q[1] \/ (p[1] = q[1] /\ p[2] <= q[2])
    IN  The({IF bad(coefs) # {}
             THEN [kind |-> "raise",
                   err |-> coefs[first(bad(coefs))[1]][first(bad(coefs))[2]].err]
             ELSE [kind |-> "ok",
                   value |-> Dense([o \in 1..(order - 1) |->
                                       Dense([n \in 1..Len(groups) |->
                                                 DotStresses(coefs[n][o].value,
                                                             groups[n].stresses)])])] :
             coefs \in {Dense([n \in 1..Len(groups) |->
                                  Dense([o \in 1..(order - 1) |->
                                            GetDiffCoeff(hvecOf(n), o, pivot)])])}})

RavelComponentMajor(dei) ==
    Dense([q \in 1..(6 * Len(dei)) |->
              dei[((q - 1) % Len(dei)) + 1][((q - 1) \div Len(dei)) + 1]])

\* line 896: svec = np.ravel(dei_dsi[_ord - 1].T), strain state major and
\* Voigt component minor; dei holds one 6-vector per strain state
RavelStateMajor(dei) ==
    Dense([q \in 1..(6 * Len(dei)) |-> dei[((q - 1) \div 6) + 1][((q - 1) % 6) + 1]])

\* np.dot(m, svec)
MatVec(m, svec) ==
    Dense([k \in 1..Len(m) |-> FSum([q \in 1..Len(svec) |-> FMul(m[k][q], svec[q])])])

VSubsAscendingOnly(syms, values) ==
    LET r == CHOOSE n \in 1..4 : Pow(dim, n) = Len(syms.c_arr)
        ascending(t) == \A i \in 1..(r - 1) : t[i] <= t[i + 1]
    IN  Dense([q \in 1..Len(syms.c_arr) |->
                  IF ascending(Unravel(q, r))
                  THEN values[CHOOSE k \in 1..Len(syms.c_vec) : syms.c_vec[k] = syms.c_arr[q]]
                  ELSE FZero])

\* line 898: v_subs(carr, cmap) with cmap = dict(zip(cvec, values))
VSubs(syms, values) ==
    Dense([q \in 1..Len(syms.c_arr) |->
              values[CHOOSE k \in 1..Len(syms.c_vec) : syms.c_vec[k] = syms.c_arr[q]]])

\* diff_fit(strains, stresses, eq_stress, order, tol)
DiffFit(strs, stss, eq_stress, order, tol, ties, pivot) ==
    LET tensor(o, m, dei) ==
            The({The({The({FromVoigt(c, o + 1) :
                           c \in {VSubs(syms, values)}}) :
                      values \in {MatVec(m[o].pinv, svec)}}) :
                 syms \in {GetSymbolList(o + 1)},
                 svec \in {RavelStateMajor(dei.value[o])}})
        fitted(ssd, dei) ==
            The({[kind |-> "ok",
                  value |-> Dense([o \in 1..(order - 1) |-> tensor(o, m, dei)]),
                  warned |-> ssd.warned] :
                 m \in {GeneratePseudo([n \in 1..Len(ssd.groups) |-> ssd.groups[n].key],
                                       order)}})
    IN  The({IF ssd.kind = "raise" THEN ssd
             ELSE The({IF dei.kind = "raise"
                       THEN [kind |-> "raise", err |-> dei.err, warned |-> ssd.warned]
                       ELSE fitted(ssd, dei) :
                      dei \in {DeiDsi(ssd.groups, order, pivot)}}) :
             ssd \in {GetStrainStateDict(strs, stss, eq_stress, tol, TRUE, TRUE, ties)}})

----------------------------------------------------------------------------
(* ElasticTensor.from_independent_strains *)

\* tuple(ss) for ss in np.eye(6): the unit strain state of axis ii (0-based)
Eye(ii) == [j \in 1..6 |-> IF j = ii + 1 THEN FInt(1) ELSE FZero]

\* np.polyfit(x, y, 1)[0]: the slope of the least-squares line through the
\* points (x[j], y[j]), which have at least two different x
PolyfitSlope(x, y) ==
    LET n == Len(x)
        S(f) == LET acc[j \in 0..n] == IF j = 0 THEN 0 ELSE acc[j - 1] + f[j]
                IN  acc[n]
        sx == S(x)
        sy == S(y)
        sxx == S([j \in 1..n |-> x[j] * x[j]])
        sxy == S([j \in 1..n |-> x[j] * y[j]])
    IN  Frac(n * sxy - sx * sy, n * sxx - sx * sx)

\* |f| < tol for a pure number f and tol in units of 0.5e-10:
\* |num| * 2e10 < tol * den
BelowTol(f, tol) == Abs(f[1]) <= ((tol * f[2] - 1) \div 100000) \div 200000

NoExtraStates(keys) == {}

\* line 510: set(ss_dict) - set(strain_states), the keys that are none of
\* the six unit strain states
ExtraStates(keys) == keys \ {Eye(ii) : ii \in 0..5}

\* line 509: set(strain_states) - set(ss_dict), the unit strain states that
\* are no key
MissingStates(keys) == {Eye(ii) : ii \in 0..5} \ keys

\* lines 514-523 on a classification that holds the six unit strain states:
\* the fitted tensor, zeroed
FitIndependent(groups, vasp, tol) ==
    LET group(ii) == groups[CHOOSE n \in 1..Len(groups) : groups[n].key = Eye(ii)]
        slope(ii, jj) == PolyfitSlope(Column(group(ii).strains, ii),
                                      Column(group(ii).stresses, jj))
        scaled(f) == IF vasp THEN FMul(<<-1, 10>>, f) ELSE f
    IN  The({[value |-> [rank |-> 4,
                         array |-> Dense([k \in 1..81 |->
                                             IF BelowTol(instance.value.array[k], tol) THEN FZero
                                             ELSE instance.value.array[k]])],
              warned |-> instance.warned] :
             instance \in {NthOrderElasticTensor(t, 4, SymmetryTol) :
                              t \in {FromVoigt(c_ij, 2) :
                                        c_ij \in {Dense([k \in 1..36 |->
                                                            scaled(slope((k - 1) \div 6,
                                                                         (k - 1) % 6))])}}}})

\* ElasticTensor.from_independent_strains(strains, stresses, eq_stress, vasp, tol)
FromIndependentStrains(strs, stss, eq_stress, vasp, tol, ties) ==
    The({IF ss_dict.kind = "raise"
         THEN [kind |-> "raise", err |-> ss_dict.err, warned |-> ss_dict.warned]
         ELSE The({IF MissingStates(keys) # {}
                   THEN [kind |-> "raise", err |-> "ValueError: missing strain states",
                         missing |-> MissingStates(keys), warned |-> ss_dict.warned]
                   ELSE The({[kind |-> "ok", value |-> fitted.value,
                              warned |-> ss_dict.warned,
                              warnedExtra |-> (ExtraStates(keys) # {}),
                              warnedSymmetry |-> fitted.warned] :
                             fitted \in {FitIndependent(ss_dict.groups, vasp, tol)}}) :
                  keys \in {{ss_dict.groups[n].key : n \in 1..Len(ss_dict.groups)}}}) :
        ss_dict \in {GetStrainStateDict(strs, stss, eq_stress, DefaultTol, TRUE, TRUE, ties)}})

----------------------------------------------------------------------------
ClsIdle ==
    /\ strains = <<>>
    /\ stresses = <<>>
    /\ call = [fn |-> "none"]
    /\ ret = [kind |-> "none"]

DifIdle ==
    /\ hvec = <<>>
    /\ dcall = [fn |-> "none"]
    /\ coef = [kind |-> "none"]

InitSym == SymInit /\ ClsIdle /\ DifIdle

SpecSym == InitSym /\ [][SymNext]_vars

----------------------------------------------------------------------------
(* The caller of find_eq_stress and get_strain_state_dict *)

MaxSamples == 3

\* the caller collects one more (strain, stress) pair before its call
AddSample(e, s) ==
    /\ call.fn = "none"
    /\ Len(strains) < MaxSamples
    /\ strains' = Append(strains, e)
    /\ stresses' = Append(stresses, s)
    /\ UNCHANGED <<call, ret>>

\* find_eq_stress(strains, stresses, tol)
CallFindEqStress(tol) ==
    /\ call.fn = "none"
    /\ call' = [fn |-> "find_eq_stress", tol |-> tol]
    /\ ret' = FindEqStress(strains, stresses, tol)
    /\ UNCHANGED <<strains, stresses>>

\* get_strain_state_dict(strains, stresses, eq_stress, tol, add_eq, sort)
CallGetStrainStateDict(eq_stress, tol, add_eq, sort, ties) ==
    /\ call.fn = "none"
    /\ call' = [fn |-> "get_strain_state_dict", eq_stress |-> eq_stress, tol |-> tol,
                add_eq |-> add_eq, sort |-> sort, ties |-> ties]
    /\ ret' = GetStrainStateDict(strains, stresses, eq_stress, tol, add_eq, sort, ties)
    /\ UNCHANGED <<strains, stresses>>

ClsNext ==
    \/ \E p \in SamplePalette :
           AddSample(p[1], p[2]) /\ UNCHANGED <<symVars, difVars>>
    \/ \E tol \in Tols :
           CallFindEqStress(tol) /\ UNCHANGED <<symVars, difVars>>
    \/ \E eq_stress \in EqStressArgs, tol \in Tols, add_eq \in BOOLEAN,
          sort \in BOOLEAN, ties \in {"stable", "reversed"} :
           /\ ~add_eq => eq_stress = None
           /\ ~sort => ties = "stable"
           /\ CallGetStrainStateDict(eq_stress, tol, add_eq, sort, ties)
           /\ UNCHANGED <<symVars, difVars>>

InitCls == SymInit /\ ClsIdle /\ DifIdle

SpecCls == InitCls /\ [][ClsNext]_vars

----------------------------------------------------------------------------
(* The caller of get_diff_coeff and of the derivative loop of diff_fit *)

MaxStencil == 4

\* the caller collects one more stencil point before its call
AddPoint(x) ==
    /\ dcall.fn = "none"
    /\ Len(hvec) < MaxStencil
    /\ hvec' = Append(hvec, x)
    /\ UNCHANGED <<dcall, coef>>

\* get_diff_coeff(hvec, n)
CallGetDiffCoeff(n, pivot) ==
    /\ dcall.fn = "none"
    /\ dcall' = [fn |-> "get_diff_coeff", n |-> n, pivot |-> pivot]
    /\ coef' = GetDiffCoeff(hvec, n, pivot)
    /\ UNCHANGED hvec

\* the loop of diff_fit(order) over one strain state whose stencil is hvec
CallDiffFit(order, pivot) ==
    /\ dcall.fn = "none"
    /\ dcall' = [fn |-> "diff_fit", order |-> order, pivot |-> pivot]
    /\ coef' = DiffFitCoeffs(hvec, order, pivot)
    /\ UNCHANGED hvec

DifNext ==
    \/ \E x \in Points :
           AddPoint(x) /\ UNCHANGED <<symVars, clsVars>>
    \/ \E n \in 0..MaxStencil, pivot \in {"zero", "residue"} :
           CallGetDiffCoeff(n, pivot) /\ UNCHANGED <<symVars, clsVars>>
    \/ \E order \in 2..(MaxStencil + 1), pivot \in {"zero", "residue"} :
           CallDiffFit(order, pivot) /\ UNCHANGED <<symVars, clsVars>>

InitDif == SymInit /\ ClsIdle /\ DifIdle

SpecDif == InitDif /\ [][DifNext]_vars

----------------------------------------------------------------------------
(* The caller of diff_fit and ElasticTensor.from_independent_strains *)

MaxOrder == 3

\* the elastic constants the caller's stresses are generated from: a
\* symmetric Voigt matrix with a different entry for every index pair
Cij(i, j) == 6 * (IF i < j THEN i ELSE j) + (IF i < j THEN j ELSE i) + 1

\* the 3x3 strain whose Voigt form is v (shear entries halved)
StrainFromVoigt(v) == Sym3(<<v[1], v[2], v[3], v[4] \div 2, v[5] \div 2, v[6] \div 2>>)

\* the sample of Voigt strain v: stress = C . strain
SampleOf(v) ==
    LET sum[i \in 0..5, j \in -1..5] ==
            IF j = -1 THEN 0 ELSE sum[i, j - 1] + Cij(i, j) * v[j + 1]
    IN  <<StrainFromVoigt(v), Sym3([i \in 1..6 |-> sum[i - 1, 5]])>>

AxisSample(a, h) == SampleOf([j \in 1..6 |-> IF j = a + 1 THEN h ELSE 0])

\* a sample on axis a whose stress is off the line stress = C . strain, by
\* a different amount in every component: data with a second derivative
CurvedSample(a, h) ==
    LET on == AxisSample(a, h)
    IN  <<on[1], Sym3([r \in 1..6 |-> Voigt(on[2])[r] + 16 * (6 * a + r)])>>

\* what the caller may collect, in this order: axis 0 at two magnitudes (the
\* second off the line), axis 1 likewise, axis 2 above the tolerance, axis 2 at exactly 1e-10, the three
\* shear axes, a sample of zero strain, a sample of a biaxial state
FitItems ==
    << <<AxisSample(0, 4)>>,
       <<CurvedSample(0, 8)>>,
       <<AxisSample(1, -4)>>,
       <<CurvedSample(1, 8)>>,
       <<AxisSample(2, 4)>>,
       <<AxisSample(2, 2)>>,
       <<AxisSample(3, 8), AxisSample(4, 8), AxisSample(5, -8)>>,
       <<<<Sym3(Zero6), Sym3(<<6, 0, 0, 0, 0, 0>>)>>>>,
       <<SampleOf(<<4, 8, 0, 0, 0, 0>>)>> >>

\* the eq_stress arguments of the fits: not supplied, or zero
FitEqStressArgs == {None, Sym3(Zero6)}

\* the item the caller collected last (0 before the first)
LastItem ==
    IF strains = <<>> THEN 0
    ELSE CHOOSE k \in 1..Len(FitItems) :
             FitItems[k][Len(FitItems[k])] = <<strains[Len(strains)], stresses[Len(stresses)]>>

\* the caller collects the samples of one more item before its call
AddFitSamples(k) ==
    /\ call.fn = "none"
    /\ k > LastItem
    /\ strains' = strains \o [j \in 1..Len(FitItems[k]) |-> FitItems[k][j][1]]
    /\ stresses' = stresses \o [j \in 1..Len(FitItems[k]) |-> FitItems[k][j][2]]
    /\ UNCHANGED <<call, ret>>

\* every strain collected has at most one nonzero Voigt component
SingleAxisOnly ==
    \A k \in 1..Len(strains) :
        Cardinality({j \in 1..6 : StrainVoigt(strains[k])[j] # 0}) <= 1

\* diff_fit(strains, stresses, eq_stress, order, tol) on one or more samples,
\* all of single axes
CallDiffFitSamples(eq_stress, order, tol) ==
    /\ call.fn = "none"
    /\ strains # <<>>
    /\ SingleAxisOnly
    /\ call' = [fn |-> "diff_fit", eq_stress |-> eq_stress, order |-> order, tol |-> tol]
    /\ ret' = DiffFit(strains, stresses, eq_stress, order, tol, "stable", "zero")
    /\ UNCHANGED <<strains, stresses>>

\* ElasticTensor.from_independent_strains(strains, stresses, eq_stress, vasp, tol)
\* on one or more samples
CallFromIndependentStrains(eq_stress, vasp, tol) ==
    /\ call.fn = "none"
    /\ strains # <<>>
    /\ call' = [fn |-> "from_independent_strains", eq_stress |-> eq_stress,
                vasp |-> vasp, tol |-> tol]
    /\ ret' = FromIndependentStrains(strains, stresses, eq_stress, vasp, tol, "stable")
    /\ UNCHANGED <<strains, stresses>>

\* the sequences of at most two of the n tensors a fit returned, by position
Selections(n) == UNION {[1..len -> 1..n] : len \in 0..2}

\* ElasticTensorExpansion(c_list) for a sequence c_list of tensors that
\* diff_fit returned, followed by a read of its order
NewElasticTensorExpansion(sel) ==
    /\ call.fn = "diff_fit"
    /\ ret.kind = "ok"
    /\ \A i \in 1..Len(sel) : sel[i] <= Len(ret.value)
    /\ LET c_list == [i \in 1..Len(sel) |-> ret.value[sel[i]]]
           made == ElasticTensorExpansion(c_list)
       IN  /\ call' = [fn |-> "ElasticTensorExpansion",
                       ranks |-> [i \in 1..Len(sel) |-> c_list[i].rank]]
           /\ ret' = IF made.kind = "raise" THEN made
                     ELSE [kind |-> "ok", value |-> made.value, warned |-> made.warned,
                           order |-> ExpansionOrder(made.value)]
    /\ UNCHANGED <<strains, stresses>>

FitNext ==
    \/ \E sel \in Selections(MaxOrder - 1) :
           NewElasticTensorExpansion(sel) /\ UNCHANGED <<symVars, difVars>>
    \/ \E k \in 1..Len(FitItems) :
           AddFitSamples(k) /\ UNCHANGED <<symVars, difVars>>
    \/ \E eq_stress \in FitEqStressArgs, order \in 2..MaxOrder :
           CallDiffFitSamples(eq_stress, order, DefaultTol) /\ UNCHANGED <<symVars, difVars>>
    \/ \E eq_stress \in FitEqStressArgs, vasp \in BOOLEAN :
           CallFromIndependentStrains(eq_stress, vasp, DefaultTol) /\ UNCHANGED <<symVars, difVars>>

InitFit == SymInit /\ ClsIdle /\ DifIdle

SpecFit == InitFit /\ [][FitNext]_vars

\* every pseudo-matrix that a returning diff_fit call of SpecFit inverts has
\* pairwise orthogonal columns, the case Pinv computes
PinvColumnsOrthogonal ==
    (call.fn = "diff_fit" /\ ret.kind = "ok") =>
        LET ssd == GetStrainStateDict(strains, stresses, call.eq_stress, call.tol,
                                      TRUE, TRUE, "stable")
            keys == [n \in 1..Len(ssd.groups) |-> ssd.groups[n].key]
        IN  \A degree \in 2..call.order :
                LET syms == GetSymbolList(degree)
                IN  ColumnsOrthogonal(PseudoMat(syms, SVec(syms, keys, degree)),
                                      Len(syms.c_vec))



----------------------------------------------------------------------------
(* raise_if_unphysical and the properties of ElasticTensor it decorates *)

UnphysicalError == "ValueError: Bulk or shear modulus is negative, property cannot be determined"

\* the structure-dependent properties of lines 230-397
StructureProperties ==
    {"trans_v", "long_v", "snyder_ac", "snyder_opt", "snyder_total", "clarke_thermalcond",
     "cahill_thermalcond", "agne_diffusive_thermalcond", "debye_temperature"}

DecoratedCompositesOnly ==
    {"snyder_ac", "snyder_opt", "snyder_total", "cahill_thermalcond",
     "agne_diffusive_thermalcond", "debye_temperature"}

\* the properties that carry @raise_if_unphysical
Decorated ==
    {"trans_v", "long_v", "snyder_ac", "snyder_opt", "snyder_total", "clarke_thermalcond",
     "cahill_thermalcond", "agne_diffusive_thermalcond", "debye_temperature"}

\* the decorated properties a property's body calls, in evaluation order
SubCalls(name) ==
    CASE name \in {"snyder_ac", "snyder_opt", "cahill_thermalcond", "debye_temperature"}
             -> <<"long_v", "trans_v">>
      [] name = "agne_diffusive_thermalcond" -> <<"trans_v", "long_v">>
      [] name = "snyder_total" -> <<"snyder_ac", "snyder_opt">>
      [] OTHER -> <<>>

RECURSIVE Property(_, _, _)
\* tensor.name(structure) for a tensor with moduli k_vrh, g_vrh: the wrapper
\* of lines 122-125 around the body; a value is named by what it was
\* computed from
Property(name, k_vrh, g_vrh) ==
    IF name \in Decorated /\ (k_vrh < 0 \/ g_vrh < 0)
    THEN [kind |-> "raise", err |-> UnphysicalError]
    ELSE LET subs == SubCalls(name)
             got == [i \in 1..Len(subs) |-> Property(subs[i], k_vrh, g_vrh)]
             bad == {i \in 1..Len(subs) : got[i].kind = "raise"}
         IN  IF bad # {}
             THEN got[CHOOSE i \in bad : \A j \in bad : i <= j]
             ELSE IF name \in {"trans_v", "long_v"} /\ g_vrh < 0
             THEN [kind |-> "raise",
                   err |-> "ValueError: k_vrh or g_vrh is negative, sound velocity is undefined"]
             ELSE [kind |-> "ok", value |-> <<name, k_vrh, g_vrh>>]

\* lines 416-426: props
BaseProperties ==
    {"k_voigt", "k_reuss", "k_vrh", "g_voigt", "g_reuss", "g_vrh", "universal_anisotropy",
     "homogeneous_poisson", "y_mod"}

\* lines 446-455: s_props, in order
SProps ==
    <<"trans_v", "long_v", "snyder_ac", "snyder_opt", "snyder_total", "clarke_thermalcond",
      "cahill_thermalcond", "debye_temperature">>

\* ElasticTensor.get_structure_property_dict(structure, include_base_props,
\* ignore_errors) for a tensor with moduli k_vrh, g_vrh
GetStructurePropertyDict(k_vrh, g_vrh, include_base_props, ignore_errors) ==
    LET names == {SProps[i] : i \in 1..Len(SProps)}
        got == [i \in 1..Len(SProps) |-> Property(SProps[i], k_vrh, g_vrh)]
        bad == {i \in 1..Len(SProps) : got[i].kind = "raise"}
        keys == names \cup {"structure"} \cup (IF include_base_props THEN BaseProperties ELSE {})
        fill(sp_dict) ==
            [key \in keys |->
                IF key \in BaseProperties /\ include_base_props THEN <<key, k_vrh, g_vrh>>
                ELSE IF key = "structure" THEN <<"structure">>
                ELSE sp_dict[key]]
    IN  IF ignore_errors /\ (k_vrh < 0 \/ g_vrh < 0)
        THEN [kind |-> "ok", value |-> fill([key \in names |-> None])]
        ELSE IF bad # {}
        THEN got[CHOOSE i \in bad : \A j \in bad : i <= j]
        ELSE [kind |-> "ok",
              value |-> fill([key \in names |->
                                 got[CHOOSE i \in 1..Len(SProps) : SProps[i] = key].value])]

----------------------------------------------------------------------------
(* ElasticTensor.directional_poisson_ratio *)

Dot(u, v) == u[1] * v[1] + u[2] * v[2] + u[3] * v[3]

\* a * den^2 >= num^2 * b for a >= 0, b > 0, num >= 0 and den > 0, computed
\* without the large products
SquareRatioAtLeast(a, b, num, den) ==
    IF a = 0 THEN num = 0
    ELSE LET c == (num * num * b + a - 1) \div a
         IN  den >= (c + den - 1) \div den

NotOrthogonalUnnormalised(n, m, tol) == Abs(Dot(n, m)) * tol[2] >= tol[1]

\* line 218-219: np.abs(np.dot(get_uvec(n), get_uvec(m))) >= tol for vectors
\* of integers and tol = tol[1] / tol[2] >= 0; get_uvec leaves the zero
\* vector as it is
NotOrthogonal(n, m, tol) ==
    LET nn == Dot(n, n)
        mm == Dot(m, m)
    IN  IF nn = 0 \/ mm = 0 THEN 0 >= tol[1]
        ELSE SquareRatioAtLeast(Dot(n, m) * Dot(n, m), nn * mm, tol[1], tol[2])

\* ElasticTensor.directional_poisson_ratio(n, m, tol)
DirectionalPoissonRatio(n, m, tol) ==
    IF NotOrthogonal(n, m, tol)
    THEN [kind |-> "raise", err |-> "ValueError: n and m must be orthogonal"]
    ELSE [kind |-> "ok", value |-> <<"directional_poisson_ratio", n, m>>]

----------------------------------------------------------------------------
(* The caller of the tensor constructor and of the properties *)

\* a tensor of the given rank from its entries in row-major order
TensorOf(r, entries) == [rank |-> r, array |-> [k \in 1..Len(entries) |-> FInt(entries[k])]]

\* the Voigt-symmetric tensor of rank 4 of the constants Cij
SymmetricRank4 == FromVoigt([k \in 1..36 |-> FInt(Cij((k - 1) \div 6, (k - 1) % 6))], 2)

\* the input arrays: rank 1; rank 2 symmetric, asymmetric by 1, asymmetric
\* by exactly 1e-4; rank 3; rank 4 Voigt-symmetric and with one entry changed
TensorInputs ==
    {TensorOf(1, <<1, 2, 3>>),
     TensorOf(2, <<1, 6, 5, 6, 2, 4, 5, 4, 3>>),
     TensorOf(2, <<1, 7, 5, 6, 2, 4, 5, 4, 3>>),
     [rank |-> 2, array |-> [TensorOf(2, <<1, 6, 5, 6, 2, 4, 5, 4, 3>>).array
                                 EXCEPT ![2] = <<60001, 10000>>]],
     TensorOf(3, [k \in 1..27 |-> k]),
     SymmetricRank4,
     [rank |-> 4, array |-> [SymmetricRank4.array EXCEPT ![2] = FInt(0)]]}

\* the check_rank arguments
CheckRanks == {NoCheck, 1, 2, 3, 4}

\* the tol arguments of the constructor: the default 1e-4, and 1
SymmetryTols == {SymmetryTol, <<1, 1>>}

\* the moduli k_vrh, g_vrh of the tensors whose properties are read
Moduli == -2..2

\* the direction arguments
Directions ==
    {<<1, 0, 0>>, <<0, 1, 0>>, <<2, 0, 0>>, <<1, 1, 0>>, <<1, -1, 0>>, <<0, 0, 0>>, <<1, 2, 2>>}

\* the tol arguments of directional_poisson_ratio: 0, the default 1e-8, 1/2
OrthogonalityTols == {<<0, 1>>, <<1, 100000000>>, <<1, 2>>}

\* NthOrderElasticTensor(input_array, check_rank, tol)
NewNthOrderElasticTensor(input, check_rank, tol) ==
    /\ call.fn = "none"
    /\ call' = [fn |-> "NthOrderElasticTensor", input |-> input,
                check_rank |-> check_rank, tol |-> tol]
    /\ ret' = NthOrderElasticTensor(input, check_rank, tol)
    /\ UNCHANGED <<strains, stresses>>

\* tensor.name(structure)
CallProperty(name, k_vrh, g_vrh) ==
    /\ call.fn = "none"
    /\ call' = [fn |-> "property", name |-> name, k_vrh |-> k_vrh, g_vrh |-> g_vrh]
    /\ ret' = Property(name, k_vrh, g_vrh)
    /\ UNCHANGED <<strains, stresses>>

\* tensor.get_structure_property_dict(structure, include_base_props, ignore_errors)
CallGetStructurePropertyDict(k_vrh, g_vrh, include_base_props, ignore_errors) ==
    /\ call.fn = "none"
    /\ call' = [fn |-> "get_structure_property_dict", k_vrh |-> k_vrh, g_vrh |-> g_vrh,
                include_base_props |-> include_base_props, ignore_errors |-> ignore_errors]
    /\ ret' = GetStructurePropertyDict(k_vrh, g_vrh, include_base_props, ignore_errors)
    /\ UNCHANGED <<strains, stresses>>

\* tensor.directional_poisson_ratio(n, m, tol)
CallDirectionalPoissonRatio(n, m, tol) ==
    /\ call.fn = "none"
    /\ call' = [fn |-> "directional_poisson_ratio", n |-> n, m |-> m, tol |-> tol]
    /\ ret' = DirectionalPoissonRatio(n, m, tol)
    /\ UNCHANGED <<strains, stresses>>

TensorNext ==
    \/ \E input \in TensorInputs, check_rank \in CheckRanks, tol \in SymmetryTols :
           NewNthOrderElasticTensor(input, check_rank, tol) /\ UNCHANGED <<symVars, difVars>>
    \/ \E name \in StructureProperties, k_vrh \in Moduli, g_vrh \in Moduli :
           CallProperty(name, k_vrh, g_vrh) /\ UNCHANGED <<symVars, difVars>>
    \/ \E k_vrh \in Moduli, g_vrh \in Moduli, include_base_props \in BOOLEAN,
          ignore_errors \in BOOLEAN :
           CallGetStructurePropertyDict(k_vrh, g_vrh, include_base_props, ignore_errors)
           /\ UNCHANGED <<symVars, difVars>>
    \/ \E n \in Directions, m \in Directions, tol \in OrthogonalityTols :
           CallDirectionalPoissonRatio(n, m, tol) /\ UNCHANGED <<symVars, difVars>>

InitTensor == SymInit /\ ClsIdle /\ DifIdle

SpecTensor == InitTensor /\ [][TensorNext]_vars

----------------------------------------------------------------------------
(* ElasticTensorExpansion.get_compliance_expansion, get_strain_from_stress *)

\* line 740: the highest order the compliance expansion is written for
MaxComplianceOrder == 4

\* the 6 x 6 Voigt matrix of a tensor of rank 4, as rows of numerators (the
\* entries are whole numbers)
VoigtRows(t) ==
    The({[i \in 1..6 |-> [j \in 1..6 |-> v[6 * (i - 1) + j][1]]] \o <<>> :
         v \in {TensorVoigt(t)}})

\* lines 157-162, compliance_tensor: np.linalg.inv raises for a matrix whose
\* elimination meets a zero pivot, as it does for the zero matrix
ComplianceTensor(t) ==
    IF Det(VoigtRows(t)) = 0
    THEN [kind |-> "raise", err |-> "LinAlgError: Singular matrix"]
    ELSE [kind |-> "ok", value |-> [rank |-> 4, term |-> "compliance_tensor"]]

\* np.einsum(subscripts, *operands) on arrays of three entries along every
\* axis: every operand must have as many axes as its subscripts have
\* letters; the result has one axis per letter of the output
Einsum(inputs, output, operands) ==
    IF \E i \in 1..Len(inputs) : Len(inputs[i]) # operands[i].rank
    THEN [kind |-> "raise", err |-> "ValueError: einsum operand has wrong number of axes"]
    ELSE [kind |-> "ok", value |-> [rank |-> Len(output), term |-> "einsum"]]

\* the letters that occur once in the inputs, in alphabetical order: the
\* output of an einsum written without "->"
ImplicitOutput(inputs) ==
    LET letters == <<"a", "b", "c", "d", "e", "f", "g", "h", "i", "j", "k", "l", "m",
                     "n", "o", "p", "q", "r", "s", "t", "u", "v", "w", "x", "y", "z">>
        count(c) == Cardinality({p \in (1..Len(inputs)) \X (1..8) :
                                    p[2] <= Len(inputs[p[1]]) /\ inputs[p[1]][p[2]] = c})
    IN  SelectSeq(letters, LAMBDA c : count(c) = 1)

\* line 743: "ijpq,pqrsuv,rskl,uvmn->ijklmn"
EinStr == << <<"i", "j", "p", "q">>, <<"p", "q", "r", "s", "u", "v">>,
             <<"r", "s", "k", "l">>, <<"u", "v", "m", "n">> >>

\* line 747: "pqab,cdij,efkl,ghmn,abcdefgh"
EinString1 == << <<"p", "q", "a", "b">>, <<"c", "d", "i", "j">>, <<"e", "f", "k", "l">>,
                 <<"g", "h", "m", "n">>, <<"a", "b", "c", "d", "e", "f", "g", "h">> >>

\* lines 750-752: "pqab,abcdef,cdijmn,efkl", "pqab,abcdef,efklmn,cdij",
\* "pqab,abcdef,cdijkl,efmn"
EinStrings234 ==
    << << <<"p", "q", "a", "b">>, <<"a", "b", "c", "d", "e", "f">>,
          <<"c", "d", "i", "j", "m", "n">>, <<"e", "f", "k", "l">> >>,
       << <<"p", "q", "a", "b">>, <<"a", "b", "c", "d", "e", "f">>,
          <<"e", "f", "k", "l", "m", "n">>, <<"c", "d", "i", "j">> >>,
       << <<"p", "q", "a", "b">>, <<"a", "b", "c", "d", "e", "f">>,
          <<"c", "d", "i", "j", "k", "l">>, <<"e", "f", "m", "n">> >> >>

\* the first of a sequence of results that is a raise, or the last result
FirstRaise(results) ==
    IF \E i \in 1..Len(results) : results[i].kind = "raise"
    THEN results[CHOOSE i \in 1..Len(results) :
                     /\ results[i].kind = "raise"
                     /\ \A j \in 1..(i - 1) : results[j].kind # "raise"]
    ELSE results[Len(results)]

\* line 740: self.order <= 4
OrderSupported(order) == order <= MaxComplianceOrder

\* lines 745-755: the fourth-order term, from self[-1], self[-2], ce_exp[0]
\* and ce_exp[1]
FourthOrderTerm(self, ce0, ce1) ==
    FirstRaise(<<Einsum(EinString1, ImplicitOutput(EinString1),
                        <<ce0, ce0, ce0, ce0, self[Len(self)]>>)>>
               \o [n \in 1..3 |->
                      Einsum(EinStrings234[n], ImplicitOutput(EinStrings234[n]),
                             <<ce0, self[Len(self) - 1], ce1, ce0>>)])

\* get_compliance_expansion(self) for the sequence self of tensors of an
\* expansion: the terms of the compliance expansion, or the first error
GetComplianceExpansion(self) ==
    The({(IF order.kind = "raise" THEN order
          ELSE IF ~OrderSupported(order.value)
          THEN [kind |-> "raise",
                err |-> "ValueError: Compliance tensor expansion only supported for fourth-order and lower"]
          ELSE The({(IF first.kind = "raise" THEN first
                     ELSE The({(IF ce0.kind = "raise" THEN ce0
                                ELSE IF Len(self) < 2
                                THEN \* self[1] of an expansion of one tensor
                                     [kind |-> "raise", err |-> "IndexError"]
                                ELSE The({(IF ce1.kind = "raise" THEN ce1
                                           ELSE IF order.value = 4
                                           THEN The({(IF ce2.kind = "raise" THEN ce2
                                                      ELSE [kind |-> "ok",
                                                            value |-> <<ce0.value, ce1.value,
                                                                        ce2.value>>]) :
                                                     ce2 \in {FourthOrderTerm(self, ce0.value,
                                                                              ce1.value)}})
                                           ELSE [kind |-> "ok",
                                                 value |-> <<ce0.value, ce1.value>>]) :
                                          ce1 \in {Einsum(EinStr, <<"i", "j", "k", "l", "m", "n">>,
                                                          <<ce0.value, self[2], ce0.value,
                                                            ce0.value>>)}})) :
                               ce0 \in {ComplianceTensor(first.value)}})) :
                    first \in {NthOrderElasticTensor(self[1], 4, SymmetryTol)}})) :
         order \in {ExpansionOrder(self)}})

\* get_strain_from_stress(self, stress): the error of the compliance
\* expansion, or the sum of one term per compliance tensor
GetStrainFromStress(self, stress) ==
    The({(IF compl_exp.kind = "raise" THEN compl_exp
          ELSE [kind |-> "ok",
                value |-> [idx \in 1..Len(compl_exp.value) |->
                              [compl |-> compl_exp.value[idx], stress |-> stress,
                               times |-> idx, over |-> Fact(idx)]] \o <<>>]) :
         compl_exp \in {GetComplianceExpansion(self)}})

----------------------------------------------------------------------------
(* The caller of get_compliance_expansion and get_strain_from_stress *)

\* the tensor of rank r with every entry zero
ZeroTensor(r) == [rank |-> r, array |-> Dense([k \in 1..Pow(3, r) |-> FZero])]

\* the tensor of rank r with every entry one
OnesTensor(r) == [rank |-> r, array |-> Dense([k \in 1..Pow(3, r) |-> FInt(1)])]

\* the Voigt-symmetric tensor of rank 4 with Voigt matrix a * I + b * J on
\* the axial block and c * I on the shear block (J the matrix of ones)
CubicRank4(a, b, c) ==
    FromVoigt([k \in 1..36 |->
                  LET i == (k - 1) \div 6
                      j == (k - 1) % 6
                  IN  FInt(IF i = j THEN (IF i < 3 THEN a + b ELSE c)
                           ELSE IF i < 3 /\ j < 3 THEN b ELSE 0)], 2)

\* the first tensors of the expansions: two with an invertible Voigt matrix,
\* one of them with an entry changed so that it is not Voigt-symmetric, and
\* the zero tensor
FirstTensors ==
    {CubicRank4(3, 1, 2),
     CubicRank4(1, 0, 1),
     [rank |-> 4, array |-> [CubicRank4(3, 1, 2).array EXCEPT ![2] = FInt(5)]],
     ZeroTensor(4)}

\* the expansions: sequences of one to four tensors, the i-th (from 0) of
\* rank 4 + 2 * i as line 563 demands, hence of orders 2 to 5, and the
\* empty one
Expansions ==
    LET later(i) == {ZeroTensor(4 + 2 * i)}
                        \cup (IF i < 3 THEN {OnesTensor(4 + 2 * i)} ELSE {})
        extend(E, i) == {Append(e, t) : e \in E, t \in later(i)}
        len1 == {<<t>> : t \in FirstTensors}
        len2 == extend(len1, 1)
        len3 == extend(len2, 2)
        len4 == extend(len3, 3)
    IN  {<<>>} \cup len1 \cup len2 \cup len3 \cup len4

\* the stresses of get_strain_from_stress
StressArgs == {Sym3(Zero6), Sym3(<<6, 0, 0, 0, 0, 0>>)}

\* the caller holds an expansion
HoldExpansion(tensors) ==
    /\ call.fn = "none"
    /\ \A i \in 1..Len(tensors) : tensors[i].rank = 4 + (i - 1) * 2
    /\ call' = [fn |-> "expansion", ranks |-> [i \in 1..Len(tensors) |-> tensors[i].rank]]
    /\ ret' = [kind |-> "ok", value |-> tensors]
    /\ UNCHANGED <<strains, stresses>>

\* self.get_compliance_expansion() on the expansion held
CallGetComplianceExpansion ==
    /\ call.fn = "expansion"
    /\ call' = [fn |-> "get_compliance_expansion", self |-> ret.value]
    /\ ret' = GetComplianceExpansion(ret.value)
    /\ UNCHANGED <<strains, stresses>>

\* self.get_strain_from_stress(stress) on the expansion held
CallGetStrainFromStress(stress) ==
    /\ call.fn = "expansion"
    /\ call' = [fn |-> "get_strain_from_stress", self |-> ret.value, stress |-> stress]
    /\ ret' = GetStrainFromStress(ret.value, stress)
    /\ UNCHANGED <<strains, stresses>>

ComplianceNext ==
    \/ \E tensors \in Expansions :
           HoldExpansion(tensors) /\ UNCHANGED <<symVars, difVars>>
    \/ CallGetComplianceExpansion /\ UNCHANGED <<symVars, difVars>>
    \/ \E stress \in StressArgs :
           CallGetStrainFromStress(stress) /\ UNCHANGED <<symVars, difVars>>

InitCompliance == SymInit /\ ClsIdle /\ DifIdle

SpecCompliance == InitCompliance /\ [][ComplianceNext]_vars

----------------------------------------------------------------------------
(* C1 *)

IsPermutationOf(s, t) ==
    \A v \in 0..(dim - 1) :
        Cardinality({i \in DOMAIN s : s[i] = v}) = Cardinality({i \in DOMAIN t : t[i] = v})

\* C1: for dim = 6 and every rank r in 1..MaxRank, get_symbol_list(r) returns
\* C(r+5, r) pairwise distinct placeholders; every slot of the dense array
\* holds one of them (none is left at its initial zero), every permutation of
\* an index tuple holds the tuple's placeholder, and the tuples that hold one
\* placeholder are all permutations of each other.
C1_SymbolTable ==
    symPc = "done" =>
        /\ Len(c_vec) = Binom(rank + 5, rank)
        /\ Len(c_arr) = Pow(dim, rank)
        /\ \A i, j \in 1..Len(c_vec) : i # j => c_vec[i] # c_vec[j]
        /\ \A k \in 1..Len(c_arr) :
               /\ c_arr[k] # NoSym
               /\ \E i \in 1..Len(c_vec) : c_vec[i] = c_arr[k]
               /\ LET s == Unravel(k, rank)
                  IN  \A p \in Permutations(1..rank) :
                          c_arr[Ravel([i \in 1..rank |-> s[p[i]]])] = c_arr[k]
        /\ \A i \in 1..Len(c_vec) :
               \A k, l \in {u \in 1..Len(c_arr) : c_arr[u] = c_vec[i]} :
                   IsPermutationOf(Unravel(k, rank), Unravel(l, rank))

\* a rank-MaxRank call has returned
C1_Witness == symPc = "done" /\ rank = MaxRank /\ Len(c_vec) > dim

----------------------------------------------------------------------------
(* Reading a call of the classifier *)

IsGssd == call.fn = "get_strain_state_dict"

Returned == ret.kind = "ok"

\* the tol-zeroed Voigt form of input sample k, strain and stress
VStrain(k) == StrainVoigt(Zeroed(strains[k], call.tol))

VStress(k) == Voigt(Zeroed(stresses[k], call.tol))

\* the nonzero-index set of a 6-vector
IndexSet(v) == {i \in 0..5 : v[i + 1] # 0}

\* how many rows of group g hold strain e paired with stress s
RowCount(g, e, s) ==
    Cardinality({n \in 1..Len(g.strains) : g.strains[n] = e /\ g.stresses[n] = s})

\* how many input samples of nonzero-index set I reduce to strain e, stress s
InputCount(I, e, s) ==
    Cardinality({k \in 1..Len(strains) :
        VStrain(k) = e /\ VStress(k) = s /\ IndexSet(e) = I})

\* v is a scalar multiple of the ray key (a 6-tuple of fractions)
OnRay(v, key) ==
    \A i, j \in 1..6 : v[i] * key[j][1] * key[i][2] = v[j] * key[i][1] * key[j][2]

----------------------------------------------------------------------------
(* C2 *)

\* C2: whenever get_strain_state_dict returns, there is exactly one group per
\* distinct nonzero-index set of the tol-zeroed Voigt strains, no group is
\* empty, and every input sample is in the group of its own index set and in
\* no other.
C2_Partition ==
    (IsGssd /\ Returned) =>
        LET G == ret.groups
            sets == {IndexSet(VStrain(k)) : k \in 1..Len(strains)}
        IN  /\ Len(G) = Cardinality(sets)
            /\ {Range(G[n].ind) : n \in 1..Len(G)} = sets
            /\ \A n \in 1..Len(G) :
                   /\ \E k \in 1..Len(strains) : RowCount(G[n], VStrain(k), VStress(k)) > 0
                   /\ \A k \in 1..Len(strains) :
                          VStrain(k) # Zero6 =>
                              RowCount(G[n], VStrain(k), VStress(k))
                                  = IF IndexSet(VStrain(k)) = Range(G[n].ind)
                                    THEN InputCount(Range(G[n].ind), VStrain(k), VStress(k))
                                    ELSE 0

----------------------------------------------------------------------------
(* C3 *)

\* C3: in every group returned by get_strain_state_dict, every sample's
\* reduced strain is a scalar multiple of the group's key ray, and every
\* strained sample of the group gives the group's key.
C3_OneRay ==
    (IsGssd /\ Returned) =>
        \A n \in 1..Len(ret.groups) :
            LET g == ret.groups[n]
            IN  \A r \in 1..Len(g.strains) :
                    /\ OnRay(g.strains[r], g.key)
                    /\ g.strains[r] # Zero6 => StrainState(g.strains[r], g.ind) = g.key

----------------------------------------------------------------------------
(* C4 *)

IsFindEq == call.fn = "find_eq_stress"

\* the stresses of the samples whose strain entries are all below tol
ZeroStrainStresses ==
    LET rows == ZeroStrainRows(strains, call.tol)
    IN  [n \in 1..Len(rows) |-> stresses[rows[n]]]

\* two stresses differ by more than 1e-8 in some entry
Disagree(a, b) == \E i \in 1..3 : \E j \in 1..3 : Abs(a[i][j] - b[i][j]) > EqATol

\* C4 as stated: with at least one zero-strain sample, find_eq_stress returns
\* only when every pair of zero-strain samples agrees within 1e-8, and raises
\* whenever two of them disagree.
C4_AsStated ==
    (IsFindEq /\ Len(ZeroStrainStresses) > 0) =>
        LET eq == ZeroStrainStresses
            clash == \E k, l \in 1..Len(eq) : Disagree(eq[k], eq[l])
        IN  /\ Returned => ~clash /\ ret.value = eq[1]
            /\ clash => ret.kind = "raise"

\* C4 amended: with at least one zero-strain sample, find_eq_stress returns
\* the first zero-strain sample's stress, without a warning, exactly when
\* every zero-strain sample's stress agrees with the first one within 1e-8 in
\* every entry, and raises the ambiguous-equilibrium ValueError exactly when
\* some zero-strain sample disagrees with the first one.
C4_AgainstFirst ==
    (IsFindEq /\ Len(ZeroStrainStresses) > 0) =>
        LET eq == ZeroStrainStresses
            clash == \E k \in 1..Len(eq) : Disagree(eq[k], eq[1])
        IN  IF clash
            THEN ret.kind = "raise" /\ ret.err = "ValueError: multiple eq stresses"
            ELSE Returned /\ ret.value = eq[1] /\ ~ret.warned

\* find_eq_stress returned although two zero-strain samples disagree with
\* each other (each of them agrees with the first)
C4_Witness ==
    /\ IsFindEq
    /\ Returned
    /\ \E k, l \in 1..Len(ZeroStrainStresses) :
           Disagree(ZeroStrainStresses[k], ZeroStrainStresses[l])

----------------------------------------------------------------------------
(* C5 *)

\* no input sample has all strain entries below tol
NoZeroStrainSample == Len(ZeroStrainRows(strains, call.tol)) = 0

\* C5: when no input sample has all strain components below tol,
\* find_eq_stress warns and returns the zero stress, and
\* get_strain_state_dict with add_eq and no eq_stress returns, having warned,
\* with the zero stress as the equilibrium row of every group.
C5_DefaultsToZero ==
    (Len(strains) > 0 /\ call.fn # "none" /\ NoZeroStrainSample) =>
        /\ IsFindEq => Returned /\ ret.warned /\ ret.value = Sym3(Zero6)
        /\ (IsGssd /\ call.add_eq /\ call.eq_stress = None) =>
               /\ Returned
               /\ ret.warned
               /\ \A n \in 1..Len(ret.groups) :
                      \E r \in 1..Len(ret.groups[n].strains) :
                          /\ ret.groups[n].strains[r] = Zero6
                          /\ ret.groups[n].stresses[r] = Zero6

----------------------------------------------------------------------------
(* C6 *)

\* the same call without sorting: the groups as they are before lines 977-979
Unsorted ==
    GetStrainStateDict(strains, stresses, call.eq_stress, call.tol, call.add_eq,
                       FALSE, call.ties)

\* C6: with sort enabled, the rows of every returned group are in ascending
\* order of the strain at the first index of the group's index set, and the
\* (strain, stress) rows are those of the group before sorting, each as often:
\* no strain has changed its stress.
C6_SortedPaired ==
    (IsGssd /\ Returned /\ call.sort) =>
        /\ Unsorted.kind = "ok"
        /\ Len(Unsorted.groups) = Len(ret.groups)
        /\ \A n \in 1..Len(ret.groups) :
               LET g == ret.groups[n]
                   g0 == Unsorted.groups[n]
                   c == g.ind[1]
               IN  /\ g.key = g0.key
                   /\ Len(g.strains) = Len(g0.strains)
                   /\ Len(g.stresses) = Len(g.strains)
                   /\ \A r \in 1..(Len(g.strains) - 1) :
                          g.strains[r][c + 1] <= g.strains[r + 1][c + 1]
                   /\ \A r \in 1..Len(g.strains) :
                          RowCount(g, g.strains[r], g.stresses[r])
                              = RowCount(g0, g.strains[r], g.stresses[r])

\* a sorted group of three rows, equilibrium row included, whose order is not
\* the order before sorting
C6_Witness ==
    /\ IsGssd /\ Returned /\ call.sort /\ call.add_eq
    /\ \E n \in 1..Len(ret.groups) :
           /\ Len(ret.groups[n].strains) = 3
           /\ ret.groups[n].strains # Unsorted.groups[n].strains
           /\ ret.groups[n].stresses[1] # ret.groups[n].stresses[3]

----------------------------------------------------------------------------
(* C7 *)

\* the same call with add_eq disabled
WithoutEq ==
    GetStrainStateDict(strains, stresses, None, call.tol, FALSE, call.sort, call.ties)

\* the equilibrium stress in Voigt form: the explicit eq_stress when supplied,
\* otherwise what find_eq_stress returns
ExpectedVeq ==
    IF call.eq_stress # None THEN Voigt(call.eq_stress)
    ELSE Voigt(FindEqStress(strains, stresses, DefaultTol).value)

\* C7: with add_eq enabled every returned group holds the rows it holds with
\* add_eq disabled and exactly one more, the zero strain paired with the
\* equilibrium stress; with add_eq disabled every row of a group is an input
\* sample, no warning is given and no ambiguous-equilibrium error is raised.
C7_OneEqRow ==
    IsGssd =>
        IF call.add_eq
        THEN Returned =>
               /\ WithoutEq.kind = "ok"
               /\ Len(WithoutEq.groups) = Len(ret.groups)
               /\ \A n \in 1..Len(ret.groups) :
                      LET g == ret.groups[n]
                          g0 == WithoutEq.groups[n]
                      IN  /\ g.key = g0.key
                          /\ Len(g.strains) = Len(g0.strains) + 1
                          /\ Cardinality({r \in 1..Len(g.strains) : g.strains[r] = Zero6}) = 1
                          /\ \A r \in 1..Len(g.strains) :
                                 IF g.strains[r] = Zero6
                                 THEN g.stresses[r] = ExpectedVeq
                                 ELSE RowCount(g, g.strains[r], g.stresses[r])
                                          = RowCount(g0, g.strains[r], g.stresses[r])
        ELSE /\ ~ret.warned
             /\ ret.kind = "raise" => ret.err # "ValueError: multiple eq stresses"
             /\ Returned =>
                    \A n \in 1..Len(ret.groups) :
                        LET g == ret.groups[n]
                        IN  \A r \in 1..Len(g.strains) :
                                RowCount(g, g.strains[r], g.stresses[r])
                                    <= InputCount(IndexSet(g.strains[r]), g.strains[r],
                                                  g.stresses[r])

\* a call with add_eq and an explicit eq_stress returned two groups
C7_Witness ==
    /\ IsGssd /\ Returned /\ call.add_eq /\ call.eq_stress # None
    /\ Len(ret.groups) = 2
    /\ \A n \in 1..2 : Len(ret.groups[n].strains) >= 2

----------------------------------------------------------------------------
(* C9 *)

IsGdc == dcall.fn = "get_diff_coeff"

Distinct(h) == \A k, l \in 1..Len(h) : k # l => h[k] # h[l]

\* the product of the denominators of a coefficient vector
DenProduct(c) ==
    LET prod[j \in 0..Len(c)] == IF j = 0 THEN 1 ELSE prod[j - 1] * c[j][2]
    IN  prod[Len(c)]

\* DenProduct(c) * sum_j c[j] * h[j]^k, an integer
Applied(c, h, k) ==
    LET D == DenProduct(c)
        sum[j \in 0..Len(c)] ==
            IF j = 0 THEN 0
            ELSE sum[j - 1] + c[j][1] * (D \div c[j][2]) * Pow(h[j], k)
    IN  sum[Len(c)]

\* C9: for a stencil of m pairwise distinct points and 0 <= n < m,
\* get_diff_coeff returns coefficients c with sum_j c[j] * h[j]^k equal to n!
\* for k = n and to 0 for every other k in 0..m-1, whatever the order and
\* the spacing of the points.
C9_ExactOnPolynomials ==
    (IsGdc /\ Distinct(hvec) /\ dcall.n < Len(hvec)) =>
        /\ coef.kind = "ok"
        /\ Len(coef.value) = Len(hvec)
        /\ \A j \in 1..Len(hvec) : coef.value[j][2] > 0
        /\ \A k \in 0..(Len(hvec) - 1) :
               Applied(coef.value, hvec, k)
                   = (IF k = dcall.n THEN Fact(dcall.n) ELSE 0) * DenProduct(coef.value)

\* the second derivative on an unsorted stencil of four unequally spaced points
C9_Witness ==
    /\ IsGdc /\ coef.kind = "ok"
    /\ hvec = <<3, -2, 0, 1>>
    /\ dcall.n = 2

----------------------------------------------------------------------------
(* C10 *)

\* C10: get_diff_coeff raises whenever the stencil holds two equal values or
\* fewer than n+1 points, and the derivative loop of diff_fit(order) raises
\* whenever the stencil of a strain state has fewer than order points or two
\* equal values.
C10_RankDeficientFails ==
    /\ (IsGdc /\ (~Distinct(hvec) \/ Len(hvec) < dcall.n + 1)) => coef.kind = "raise"
    /\ (dcall.fn = "diff_fit" /\ (~Distinct(hvec) \/ Len(hvec) < dcall.order))
           => coef.kind = "raise"

----------------------------------------------------------------------------
(* C11 *)

IsDiffFit == call.fn = "diff_fit"

IsFromIndependentStrains == call.fn = "from_independent_strains"

\* the nonzero Voigt components of the k-th strain collected
Support(k) == {a \in 0..5 : StrainVoigt(strains[k])[a + 1] # 0}

\* the input is stress = C . strain on the six single-axis states: every
\* sample has one nonzero Voigt component, every axis has a sample, and no
\* two samples of an axis have the same magnitude
SixAxisData ==
    /\ \A k \in 1..Len(strains) :
           /\ Cardinality(Support(k)) = 1
           /\ <<strains[k], stresses[k]>> = SampleOf(StrainVoigt(strains[k]))
    /\ \A a \in 0..5 : \E k \in 1..Len(strains) : Support(k) = {a}
    /\ \A k, l \in 1..Len(strains) : k # l => strains[k] # strains[l]

\* the Voigt matrix (row-major) the stresses were generated from
CVoigt == [k \in 1..36 |-> FInt(Cij((k - 1) \div 6, (k - 1) % 6))]

\* the Voigt matrix of the second-order tensor a fit returned
FittedVoigt ==
    IF IsDiffFit THEN TensorVoigt(ret.value[1]) ELSE TensorVoigt(ret.value)

\* C11: on data stress = C . strain over the six single-axis strain states
\* with distinct nonzero magnitudes, diff_fit(order = 2) and
\* from_independent_strains (vasp off) return a tensor whose Voigt matrix
\* is C.
C11_RoundTrip ==
    (/\ SixAxisData
     /\ \/ IsDiffFit /\ call.order = 2
        \/ IsFromIndependentStrains /\ ~call.vasp)
    => /\ ret.kind = "ok"
       /\ FittedVoigt = CVoigt

----------------------------------------------------------------------------
(* C12 *)

\* the strain states diff_fit classified its input into
FitGroups ==
    GetStrainStateDict(strains, stresses, call.eq_stress, call.tol, TRUE, TRUE, "stable").groups

\* the (strain state n, Voigt component r) pairs whose design-matrix row
\* holds the placeholder of index tuple idx: idx is a reordering of
\* (r, a, .., a) for the axis a of state n
RowsOf(idx, groups) ==
    {p \in (1..Len(groups)) \X (0..5) :
        IsPermutationOf(idx, <<p[2]>> \o [i \in 1..(Len(idx) - 1) |-> IndexOfOne(groups[p[1]].key)])}

\* C12: get_symbol_list, generate_pseudo and diff_fit share one placeholder
\* order and one row order (strain state major, Voigt component minor): in
\* every tensor diff_fit returns, the Voigt entry at the index tuple of
\* placeholder n is the mean of the derivatives d^o stress_r / d strain_a^o
\* over exactly the (state, component) pairs whose row holds placeholder n,
\* and zero when no row holds it.
C12_SharedOrder ==
    (IsDiffFit /\ ret.kind = "ok") =>
        LET groups == FitGroups
            dei == DeiDsi(groups, call.order, "zero").value
        IN  \A o \in 1..(call.order - 1) :
                LET idxs == CombinationsWithReplacement(o + 1)
                    fitted == TensorVoigt(ret.value[o])
                IN  \A n \in 1..Len(idxs) :
                        LET rows == RowsOf(idxs[n], groups)
                            total == FSum([q \in 1..(6 * Len(groups)) |->
                                              LET p == <<((q - 1) \div 6) + 1, (q - 1) % 6>>
                                              IN  IF p \in rows THEN dei[o][p[1]][p[2] + 1]
                                                  ELSE FZero])
                        IN  fitted[Ravel(idxs[n])] =
                                IF rows = {} THEN FZero
                                ELSE FDiv(total, FInt(Cardinality(rows)))

\* diff_fit(order = 3) returned for two strain states
C12_Witness ==
    /\ IsDiffFit
    /\ call.order = 3
    /\ ret.kind = "ok"
    /\ Len(FitGroups) = 2
    /\ \E k \in 1..216 : TensorVoigt(ret.value[2])[k] # FZero

----------------------------------------------------------------------------
(* C13 *)

\* the Voigt slot (row-major, from 1) of the tensor entry at position k of
\* a tensor of rank 2d
VoigtSlotOf(k, d) ==
    LET ind == Unravel3(k, 2 * d)
    IN  Ravel([m \in 1..d |-> VoigtPair(ind[2 * m - 1], ind[2 * m])])

\* C13: for each degree d in 2..order, generate_pseudo records as absent
\* exactly the symbols that occur in no row expression of any strain-state
\* ray (those whose index tuple is a reordering of (r, a, .., a) for no
\* component r and no supplied axis a), and every entry of the degree-d
\* tensor diff_fit returns that holds an absent symbol is zero.
C13_AbsentZero ==
    (IsDiffFit /\ ret.kind = "ok") =>
        LET groups == FitGroups
            keys == [n \in 1..Len(groups) |-> groups[n].key]
            pseudo == GeneratePseudo(keys, call.order)
        IN  \A o \in 1..(call.order - 1) :
                LET syms == GetSymbolList(o + 1)
                    idxs == CombinationsWithReplacement(o + 1)
                    absent == pseudo[o].absent
                    array == ret.value[o].array
                IN  /\ absent =
                           {Symbol(idxs[n]) : n \in {l \in 1..Len(idxs) : RowsOf(idxs[l], groups) = {}}}
                    /\ \A k \in 1..Len(array) :
                           syms.c_arr[VoigtSlotOf(k, o + 1)] \in absent => array[k] = FZero

\* diff_fit(order = 3) returned tensors with absent symbols from data whose
\* constrained entries are not zero
C13_Witness ==
    /\ IsDiffFit
    /\ call.order = 3
    /\ ret.kind = "ok"
    /\ \A o \in 1..2 :
           /\ GeneratePseudo([n \in 1..Len(FitGroups) |-> FitGroups[n].key], 3)[o].absent # {}
           /\ \E k \in 1..Len(ret.value[o].array) : ret.value[o].array[k] # FZero

----------------------------------------------------------------------------
(* C14 *)

IsExpansion == call.fn = "ElasticTensorExpansion"

\* C14: diff_fit with order n returns n - 1 tensors, the i-th (from 0) of
\* rank 2 * (i + 2) with three entries along every axis;
\* ElasticTensorExpansion accepts a sequence only if its i-th element has
\* rank 4 + 2 * i, and the order of an expansion is the order of its last
\* element, the number of elements plus one.
C14_Orders ==
    /\ (IsDiffFit /\ ret.kind = "ok") =>
           /\ Len(ret.value) = call.order - 1
           /\ \A i \in 0..(call.order - 2) :
                  /\ ret.value[i + 1].rank = 2 * (i + 2)
                  /\ Len(ret.value[i + 1].array) = Pow(3, 2 * (i + 2))
    /\ (IsExpansion /\ ret.kind = "ok") =>
           /\ Len(ret.value) = Len(call.ranks)
           /\ \A i \in 0..(Len(call.ranks) - 1) : call.ranks[i + 1] = 4 + 2 * i
           /\ ret.value # <<>> =>
                  /\ ret.order.kind = "ok"
                  /\ ret.order.value = ret.value[Len(ret.value)].rank \div 2
                  /\ ret.order.value = Len(ret.value) + 1

\* an expansion of two tensors (orders 2 and 3) was accepted
C14_Witness ==
    /\ IsExpansion
    /\ ret.kind = "ok"
    /\ Len(ret.value) = 2

----------------------------------------------------------------------------
(* C15 *)

IsNewTensor == call.fn = "NthOrderElasticTensor"

\* some entry of t differs by more than tol from the entry with the two
\* indices of one index pair exchanged
ViolatesVoigtSymmetry(t, tol) ==
    \E pr \in 1..(t.rank \div 2), k \in 1..Len(t.array) :
        LET other == t.array[Ravel3(SwapPairs(Unravel3(k, t.rank), {pr}))]
        IN  FGreater(FAdd(t.array[k], FMul(FInt(-1), other)), tol)

\* C15: constructing an NthOrderElasticTensor from an array of odd rank
\* always fails; constructing one from an array of even rank (the rank
\* asked for, if one is) that violates the Voigt symmetries succeeds with a
\* warning, and the tensor holds the input values unchanged.
C15_OddFatalAsymmetricWarned ==
    IsNewTensor =>
        /\ call.input.rank % 2 = 1 => ret.kind = "raise"
        /\ (/\ call.input.rank % 2 = 0
            /\ call.check_rank \in {NoCheck, call.input.rank}
            /\ ViolatesVoigtSymmetry(call.input, call.tol))
           => /\ ret.kind = "ok"
              /\ ret.warned
              /\ ret.value = call.input

\* a rank-4 array that is not Voigt-symmetric was constructed with a warning
C15_Witness ==
    /\ IsNewTensor
    /\ call.input.rank = 4
    /\ ViolatesVoigtSymmetry(call.input, call.tol)
    /\ ret.kind = "ok"
    /\ ret.warned

----------------------------------------------------------------------------
(* C16 *)

IsProperty == call.fn = "property"

\* C16: each of the nine structure-dependent properties raises the
\* physical-validity error whenever k_vrh < 0 or g_vrh < 0, and returns a
\* value when both moduli are non-negative.
C16_GuardUniform ==
    (IsProperty /\ call.name \in StructureProperties) =>
        IF call.k_vrh < 0 \/ call.g_vrh < 0
        THEN ret.kind = "raise" /\ ret.err = UnphysicalError
        ELSE ret.kind = "ok"

\* a property whose body has no check of its own was refused for a negative
\* bulk modulus
C16_Witness ==
    /\ IsProperty
    /\ call.name = "clarke_thermalcond"
    /\ call.k_vrh < 0
    /\ call.g_vrh >= 0
    /\ ret.kind = "raise"

----------------------------------------------------------------------------
(* C17 *)

IsGetStructurePropertyDict == call.fn = "get_structure_property_dict"

Unphysical == call.k_vrh < 0 \/ call.g_vrh < 0

\* C17: get_structure_property_dict with ignore_errors never raises the
\* physical-validity error; for a negative modulus it reports every guarded
\* structure-dependent property as None, with the structure and, if asked
\* for, the base properties; for non-negative moduli the result is the one
\* without ignore_errors; without ignore_errors a negative modulus raises.
C17_IgnoreErrors ==
    IsGetStructurePropertyDict =>
        /\ call.ignore_errors => ret.kind = "ok"
        /\ (call.ignore_errors /\ Unphysical) =>
               /\ \A name \in StructureProperties :
                      name \in DOMAIN ret.value /\ ret.value[name] = None
               /\ "structure" \in DOMAIN ret.value
               /\ call.include_base_props => BaseProperties \subseteq DOMAIN ret.value
        /\ ~Unphysical =>
               ret = GetStructurePropertyDict(call.k_vrh, call.g_vrh,
                                              call.include_base_props, ~call.ignore_errors)
        /\ (~call.ignore_errors /\ Unphysical) =>
               ret.kind = "raise" /\ ret.err = UnphysicalError

----------------------------------------------------------------------------
(* C18 *)

\* the single-axis unit strain states that have a sample in the input
PresentAxes == {a \in 0..5 : \E k \in 1..Len(strains) : Support(k) = {a}}

\* the input has a sample of a strain state other than the six
HasExtraState == \E k \in 1..Len(strains) : Cardinality(Support(k)) > 1

\* the positions of the samples that are not of an additional strain state
KeptSamples ==
    SelectSeq([k \in 1..Len(strains) |-> k], LAMBDA k : Cardinality(Support(k)) <= 1)

\* the same call on the input with the samples of the additional states removed
WithoutExtra ==
    FromIndependentStrains([j \in 1..Len(KeptSamples) |-> strains[KeptSamples[j]]],
                           [j \in 1..Len(KeptSamples) |-> stresses[KeptSamples[j]]],
                           call.eq_stress, call.vasp, call.tol, "stable")

\* the classification of the input that the call works on (line 507)
Classified ==
    GetStrainStateDict(strains, stresses, call.eq_stress, DefaultTol, TRUE, TRUE, "stable")

----------------------------------------------------------------------------
(* C19 *)

IsDirectionalPoissonRatio == call.fn = "directional_poisson_ratio"

\* the square of the dot product of the normalised directions, as a fraction
\* (the zero vector is left as it is)
CosSquared(n, m) ==
    IF Dot(n, n) = 0 \/ Dot(m, m) = 0 THEN FZero
    ELSE Frac(Dot(n, m) * Dot(n, m), Dot(n, n) * Dot(m, m))

\* C19: directional_poisson_ratio(n, m, tol) raises the orthogonality error
\* exactly when the absolute dot product of the normalised directions is at
\* least tol (tol is 0 or 1/inverse; the comparison is made on the squares).
C19_OrthogonalityGuard ==
    IsDirectionalPoissonRatio =>
        LET c2 == CosSquared(call.n, call.m)
            inverse == call.tol[2] \div call.tol[1]
            atLeast == IF call.tol[1] = 0 THEN TRUE
                       ELSE /\ c2[1] # 0
                            /\ \/ c2[2] <= inverse
                               \/ c2[2] <= inverse * inverse * c2[1]
        IN  (ret.kind = "raise" /\ ret.err = "ValueError: n and m must be orthogonal") <=> atLeast

\* two directions that are neither orthogonal nor parallel were accepted
\* under tol = 1/2
C19_Witness ==
    /\ IsDirectionalPoissonRatio
    /\ Dot(call.n, call.m) # 0
    /\ call.tol = <<1, 2>>
    /\ ret.kind = "ok"

----------------------------------------------------------------------------
(* C20 *)

\* the positions of the zero-strain samples of the input
ZeroSamples == {k \in 1..Len(strains) : strains[k] = Sym3(Zero6)}

\* every other sample is strained beyond the tolerances: each of its nonzero
\* Voigt components has magnitude above 1e-10 and above tol
StrainedBeyondTol ==
    \A k \in (1..Len(strains)) \ ZeroSamples :
        \A a \in Support(k) :
            /\ Abs(StrainVoigt(strains[k])[a + 1]) > ModeTol
            /\ Abs(StrainVoigt(strains[k])[a + 1]) > call.tol

\* C20: when eq_stress is not supplied and the input holds one zero-strain
\* sample together with strained samples, get_strain_state_dict returns:
\* every group holds the zero strain paired with that sample's stress, and
\* every key has a nonzero component.
C20_ZeroSampleIsEq ==
    (/\ IsGssd
     /\ call.add_eq
     /\ call.eq_stress = None
     /\ Cardinality(ZeroSamples) = 1
     /\ Len(strains) > 1
     /\ StrainedBeyondTol)
    => /\ Returned
       /\ \A n \in 1..Len(ret.groups) :
              /\ ret.groups[n].key # [j \in 1..6 |-> FZero]
              /\ \E r \in 1..Len(ret.groups[n].strains) :
                     /\ ret.groups[n].strains[r] = Zero6
                     /\ ret.groups[n].stresses[r]
                            = Voigt(stresses[CHOOSE k \in ZeroSamples : TRUE])

----------------------------------------------------------------------------
(* C21 *)

IsGetComplianceExpansion == call.fn = "get_compliance_expansion"

\* the order of the expansion the call was made on: that of its last tensor
SelfOrder == call.self[Len(call.self)].rank \div 2

\* the Voigt matrix of the first tensor of the expansion has an inverse
FirstInvertible == Det(VoigtRows(call.self[1])) # 0

IsValueError(result) ==
    /\ result.kind = "raise"
    /\ result.err \in {"ValueError: Compliance tensor expansion only supported for fourth-order and lower",
                       "ValueError: einsum operand has wrong number of axes"}

\* C21: get_compliance_expansion on an expansion of order 2, 3 or 4 (whose
\* second-order tensor has a compliance tensor) returns order - 1 tensors,
\* and it raises a ValueError exactly for the expansions of order above 4.
C21_UpToFourthOrder ==
    (IsGetComplianceExpansion /\ call.self # <<>> /\ FirstInvertible) =>
        /\ SelfOrder <= 4 =>
               /\ ret.kind = "ok"
               /\ Len(ret.value) = SelfOrder - 1
        /\ IsValueError(ret) <=> SelfOrder > 4

----------------------------------------------------------------------------
(* C22 *)

\* the derivatives diff_fit computed from the data, per order, strain state
\* and Voigt component
RawDerivatives == DeiDsi(FitGroups, call.order, "zero").value

\* C22: every Voigt array diff_fit reconstructs is symmetric under every
\* permutation of its indices, whatever the data: for each degree and each
\* index tuple, the fitted value at the tuple is the fitted value at every
\* reordering of it.
C22_PermutationSymmetric ==
    (IsDiffFit /\ ret.kind = "ok") =>
        \A o \in 1..(call.order - 1) :
            LET fitted == TensorVoigt(ret.value[o])
            IN  \A k \in 1..Len(fitted) :
                    LET idx == Unravel(k, o + 1)
                    IN  \A p \in Permutations(1..(o + 1)) :
                            fitted[Ravel([i \in 1..(o + 1) |-> idx[p[i]]])] = fitted[k]

\* diff_fit returned for data whose first derivatives are not symmetric: the
\* derivative of component b along axis a is not that of component a along
\* axis b
C22_Witness ==
    /\ IsDiffFit
    /\ ret.kind = "ok"
    /\ \E n1, n2 \in 1..Len(FitGroups) :
           LET a == IndexOfOne(FitGroups[n1].key)
               b == IndexOfOne(FitGroups[n2].key)
           IN  /\ a # b
               /\ RawDerivatives[1][n1][b + 1] # RawDerivatives[1][n2][a + 1]
               /\ TensorVoigt(ret.value[1])[Ravel(<<a, b>>)] # FZero

====
